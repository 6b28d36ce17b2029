---------------------------- MODULE TimeEntries ----------------------------
(***************************************************************************)
(* The table time_entries as the punch service sees it: the columns its    *)
(* control depends on, and the constraints the schema puts on them.  A     *)
(* table is the sequence of its rows in id order; rows are soft-deleted,   *)
(* never removed.  An employee row belongs to one company, so an element   *)
(* of Employees stands for a (company_id, employee_id) pair.               *)
(***************************************************************************)
EXTENDS Integers, Sequences

CONSTANTS
  Employees,   \* employee rows
  Jobs,        \* jobs a punch may name (active, not time off)
  Null         \* SQL NULL

ASSUME NullAssumption ==
  /\ Null \notin Int
  /\ Null \notin Jobs

EntryTypes == {"work", "break"}

(* Time is counted in ticks.  shift is the id of the row that began the
   shift: like the uuid it stands for, no two clock-ins share it. *)
Row == [emp      : Employees,
        shift    : Nat,
        type     : EntryTypes,
        job      : Jobs \cup {Null},
        start    : Nat,
        end      : Nat \cup {Null},
        duration : Nat \cup {Null},
        offline  : BOOLEAN,
        auto     : BOOLEAN,
        deleted  : BOOLEAN]

(* The predicate of findOpenEntry and of the partial unique index. *)
IsOpen(row) == row.end = Null /\ ~row.deleted

OpenEntries(tbl, e) == {i \in DOMAIN tbl : tbl[i].emp = e /\ IsOpen(tbl[i])}

SecondsBetween(a, b) == IF b > a THEN b - a ELSE 0

(* time_entries_open_unique_idx: one open row per employee. *)
OpenUnique(tbl) ==
  \A i, k \in DOMAIN tbl :
    IsOpen(tbl[i]) /\ IsOpen(tbl[k]) /\ tbl[i].emp = tbl[k].emp => i = k

(* time_entries_ended_after_started *)
EndedAfterStarted(tbl) ==
  \A i \in DOMAIN tbl : tbl[i].end # Null => tbl[i].end >= tbl[i].start

(* What a transaction must leave behind to be allowed to commit. *)
Legal(tbl) == OpenUnique(tbl) /\ EndedAfterStarted(tbl)

(* lastWorkJobForShift: the job of the latest work row of the shift.  Rows
   that start at the same instant come back in any order. *)
LastWorkJobs(tbl, shift) ==
  LET work   == {i \in DOMAIN tbl : /\ tbl[i].shift = shift
                                    /\ tbl[i].type = "work"
                                    /\ ~tbl[i].deleted}
      latest == {i \in work : \A k \in work : tbl[k].start <= tbl[i].start}
  IN  IF work = {} THEN {Null} ELSE {tbl[i].job : i \in latest}
=============================================================================
