---------------------------- MODULE Corrections ----------------------------
(***************************************************************************)
(* Correction requests: an employee asks for time to be added, moved or    *)
(* deleted, and reviewers decide.  Carrying out the change and marking the *)
(* request are separate transactions, and a reviewer's server may stop     *)
(* between the two.  The employee adds own time where that is allowed.     *)
(***************************************************************************)
EXTENDS Integers, Sequences, FiniteSets

CONSTANTS
  Reviewers,
  Slots,        \* spans of time: entries of the same slot overlap, others do not
  MaxRequests,  \* bounds of the model
  MaxRows

ASSUME CorrectionsAssumption == MaxRequests \in Nat /\ MaxRows \in Nat

VARIABLES
  requests,   \* correction_requests, by id
  rows,       \* the time entries of one employee, by id
  deciding,   \* what each reviewer is doing
  adding,     \* the slots of the employee's own entries that are being inserted
  raced       \* history: two reviewers were carrying out the request at a time

correctionVars == <<requests, rows, deciding, adding, raced>>

(* origin: history, the request that a row was inserted for, as long as it was
   not moved; 0: none *)
TimeRow == [slot : Slots, live : BOOLEAN, origin : 0..MaxRequests]

(* entry: the row to move or delete.  slot: where to add or to move it.
   applied: history, the change was carried out. *)
RequestRow == [type : {"add", "edit", "delete"}, entry : 0..MaxRows, slot : Slots,
               status : {"pending", "approved", "rejected"}, applied : BOOLEAN]

NotDeciding == [pc |-> "idle", request |-> 0]

(* Variables have their types; what is decided about is a request. *)
CorrectionTypeOK ==
  /\ requests \in Seq(RequestRow) /\ rows \in Seq(TimeRow)
  /\ adding \subseteq Slots
  /\ deciding \in [Reviewers -> [pc : {"idle", "check", "apply", "mark", "reject"},
                                 request : 0..Len(requests)]]
  /\ raced \subseteq DOMAIN requests

CorrectionInit ==
  /\ requests = <<>> /\ rows = <<>> /\ adding = {} /\ raced = {}
  /\ deciding = [w \in Reviewers |-> NotDeciding]

-----------------------------------------------------------------------------
LiveRows == {e \in DOMAIN rows : rows[e].live}

(* Mutant of SlotFree: entries that an administrator added are passed over. *)
SlotFreeOfPunches(s) == \A e \in LiveRows : rows[e].origin = 0 => rows[e].slot # s

(* The overlap check of createEntryForEmployee *)
SlotFree(s) == \A e \in LiveRows : rows[e].slot # s

AppendRow(s, origin) ==
  /\ Len(rows) < MaxRows
  /\ rows' = Append(rows, [slot |-> s, live |-> TRUE, origin |-> origin])

Ask(type, e, s) ==
  /\ Len(requests) < MaxRequests
  /\ requests' = Append(requests, [type |-> type, entry |-> e, slot |-> s,
                                   status |-> "pending", applied |-> FALSE])

(* createCorrectionRequest: an edit or a delete names a live entry. *)
CreateRequest(type, e, s) ==
  /\ Ask(type, e, s)
  /\ UNCHANGED <<rows, deciding, adding, raced>>

(* addOwnEntry: a request instead, where the employee may not write time or the
   day has approved time; either may change at any moment. *)
AddOwnTime(s) ==
  /\ s \notin adding
  /\ \/ Ask("add", 0, s) /\ UNCHANGED adding
     \/ SlotFree(s) /\ adding' = adding \cup {s} /\ UNCHANGED requests
  /\ UNCHANGED <<rows, deciding, raced>>

InsertOwnTime(s) ==
  /\ s \in adding
  /\ AppendRow(s, 0)
  /\ adding' = adding \ {s}
  /\ UNCHANGED <<requests, deciding, raced>>

-----------------------------------------------------------------------------
(* approveCorrectionRequest, rejectCorrectionRequest *)

Turns(w, pc) == deciding' = [deciding EXCEPT ![w].pc = pc]

TurnsAway(w) == deciding' = [deciding EXCEPT ![w] = NotDeciding]

(* The request is read without a lock. *)
ReadPending(w, r, pc) ==
  /\ deciding[w].pc = "idle" /\ requests[r].status = "pending"
  /\ deciding' = [deciding EXCEPT ![w] = [pc |-> pc, request |-> r]]
  /\ UNCHANGED <<requests, rows, adding, raced>>

Applicable(q) ==
  CASE q.type = "add" -> SlotFree(q.slot)
    [] q.type = "delete" -> rows[q.entry].live
    [] q.type = "edit" -> TRUE

(* What the transaction reads without locks; an edit locks its row first. *)
CheckChange(w) ==
  /\ deciding[w].pc = "check"
  /\ IF Applicable(requests[deciding[w].request]) THEN Turns(w, "apply") ELSE TurnsAway(w)
  /\ UNCHANGED <<requests, rows, adding, raced>>

Carried(r) == requests' = [requests EXCEPT ![r].applied = TRUE]

ApplyChange(w) ==
  LET r == deciding[w].request
      q == requests[r]
  IN
  /\ deciding[w].pc = "apply"
  /\ raced' = IF \E v \in Reviewers \ {w} : deciding[v] = [pc |-> "apply", request |-> r]
              THEN raced \cup {r} ELSE raced
  /\ \/ q.type = "add" /\ AppendRow(q.slot, r) /\ Carried(r) /\ Turns(w, "mark")
     \/ /\ q.type = "delete"
        /\ rows' = [rows EXCEPT ![q.entry].live = FALSE]
        /\ Carried(r) /\ Turns(w, "mark")
     \/ /\ q.type = "edit" /\ rows[q.entry].live
        /\ rows' = [rows EXCEPT ![q.entry].slot = q.slot, ![q.entry].origin = 0]
        /\ Carried(r) /\ Turns(w, "mark")
     \/ /\ q.type = "edit" /\ ~rows[q.entry].live
        /\ TurnsAway(w) /\ UNCHANGED <<requests, rows>>
  /\ UNCHANGED adding

(* By its id, whatever its status has become. *)
MarkRequest(w) ==
  /\ deciding[w].pc \in {"mark", "reject"}
  /\ requests' = [requests EXCEPT ![deciding[w].request].status =
                    IF deciding[w].pc = "reject" THEN "rejected" ELSE "approved"]
  /\ TurnsAway(w)
  /\ UNCHANGED <<rows, adding, raced>>

ReviewerStops(w) ==
  /\ deciding[w].pc # "idle"
  /\ TurnsAway(w)
  /\ UNCHANGED <<requests, rows, adding, raced>>

-----------------------------------------------------------------------------
CorrectionNext ==
  \/ \E s \in Slots : AddOwnTime(s) \/ InsertOwnTime(s) \/ CreateRequest("add", 0, s)
  \/ \E e \in LiveRows, s \in Slots, type \in {"edit", "delete"} : CreateRequest(type, e, s)
  \/ \E w \in Reviewers :
       \/ \E r \in DOMAIN requests, pc \in {"check", "reject"} : ReadPending(w, r, pc)
       \/ CheckChange(w)
       \/ ApplyChange(w)
       \/ MarkRequest(w)
       \/ ReviewerStops(w)

CorrectionSpec == CorrectionInit /\ [][CorrectionNext]_correctionVars

-----------------------------------------------------------------------------
(* Properties *)

(* What is left of "All-or-nothing in a single transaction", the comment on
   approveCorrectionRequest: the change and the mark are two transactions, and
   an approval that was cut off in between leaves the request pending.  Approved
   again, its time is not added a second time while the first entry stands: the
   overlap check sees to that, unless two reviewers carry the request out at the
   same moment, which no advisory lock keeps them from. *)
AddedOnce ==
  \A r \in DOMAIN requests \ raced : \A e1, e2 \in LiveRows :
    rows[e1].origin = r /\ rows[e2].origin = r => e1 = e2
=============================================================================
