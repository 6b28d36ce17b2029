---------------------------- MODULE EmployeePins ----------------------------
(***************************************************************************)
(* The PINs of a company's employees: clerks hand them out in transactions *)
(* that read without locks, while employees are terminated and come back.  *)
(***************************************************************************)
EXTENDS Integers

CONSTANTS
  Staff,
  Pins,
  NoPin,
  PinClerks   \* administrators who hand out PINs

ASSUME EmployeePinsAssumption == NoPin \notin Pins /\ Staff # {}

VARIABLES
  staff,   \* employees: active, and the PIN
  clerk    \* the PIN that each clerk is handing out: to whom, and the PINs read

pinVars == <<staff, clerk>>

NoClerk == [pc |-> "idle", who |-> CHOOSE e \in Staff : TRUE, taken |-> {}]

(* Variables have their types. *)
PinTypeOK ==
  /\ staff \in [Staff -> [active : BOOLEAN, pin : Pins \cup {NoPin}]]
  /\ clerk \in [PinClerks -> [pc : {"idle", "choosing"}, who : Staff, taken : SUBSET Pins]]

PinInit ==
  /\ staff = [e \in Staff |-> [active |-> TRUE, pin |-> NoPin]]
  /\ clerk = [k \in PinClerks |-> NoClerk]

ActivePins == {staff[e].pin : e \in {x \in Staff : staff[x].active}} \ {NoPin}

BeginPin(k, e, taken) ==
  /\ clerk[k].pc = "idle" /\ staff[e].active
  /\ clerk' = [clerk EXCEPT ![k] = [pc |-> "choosing", who |-> e, taken |-> taken]]
  /\ UNCHANGED staff

(* The employee, and the PINs in use, are read without locks.  A PIN that is
   generated is a new one; one that is set by hand may be the employee's own. *)
RegeneratePin(k, e) == BeginPin(k, e, ActivePins)
SetPinManually(k, e) == BeginPin(k, e, ActivePins \ {staff[e].pin})

(* The unique index over the PINs of active employees. *)
IndexAllows(e, row) ==
  row.active /\ row.pin # NoPin =>
    \A x \in Staff \ {e} : staff[x] # row

(* The row is written by id, whatever has become of the employee. *)
WritePin(k) ==
  LET e == clerk[k].who IN
  /\ clerk[k].pc = "choosing"
  /\ \E p \in Pins \ clerk[k].taken :
       LET row == [staff[e] EXCEPT !.pin = p] IN
       IF IndexAllows(e, row) THEN staff' = [staff EXCEPT ![e] = row] ELSE UNCHANGED staff
  /\ clerk' = [clerk EXCEPT ![k] = NoClerk]

NoPinLeft(k) ==
  /\ clerk[k].pc = "choosing" /\ clerk[k].taken = Pins
  /\ clerk' = [clerk EXCEPT ![k] = NoClerk]
  /\ UNCHANGED staff

(* updateEmployee with a status *)
Terminate(e) ==
  /\ staff[e].active
  /\ staff' = [staff EXCEPT ![e] = [active |-> FALSE, pin |-> NoPin]]
  /\ UNCHANGED clerk

Reactivate(e) ==
  LET row == [staff[e] EXCEPT !.active = TRUE] IN
  /\ ~staff[e].active /\ IndexAllows(e, row)
  /\ staff' = [staff EXCEPT ![e] = row]
  /\ UNCHANGED clerk

-----------------------------------------------------------------------------
PinNext ==
  \/ \E k \in PinClerks :
       \/ \E e \in Staff : RegeneratePin(k, e) \/ SetPinManually(k, e)
       \/ WritePin(k)
       \/ NoPinLeft(k)
  \/ \E e \in Staff : Terminate(e) \/ Reactivate(e)

PinSpec == PinInit /\ [][PinNext]_pinVars
=============================================================================
