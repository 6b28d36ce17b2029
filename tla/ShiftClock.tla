----------------------------- MODULE ShiftClock -----------------------------
(***************************************************************************)
(* What the punch service promises, with no tables, locks or requests: each*)
(* employee has one clock that is off, working or on break.  Whatever      *)
(* surface a punch comes from, and whatever it races, the clock moves along*)
(* these edges only, and a break returns to the job it interrupted.        *)
(***************************************************************************)
CONSTANTS Employees, Jobs, Null

VARIABLE clock     \* [Employees -> [state, job]]

Off == [state |-> "off", job |-> Null]

Init == clock = [e \in Employees |-> Off]

ClockIn(e, j) ==
  /\ clock[e].state = "off"
  /\ clock' = [clock EXCEPT ![e] = [state |-> "work", job |-> j]]

SwitchJob(e, j) ==
  /\ clock[e].state = "work"
  /\ clock' = [clock EXCEPT ![e].job = j]

BreakIn(e) ==
  /\ clock[e].state = "work"
  /\ clock' = [clock EXCEPT ![e].state = "break"]

BreakOut(e) ==
  /\ clock[e].state = "break"
  /\ clock' = [clock EXCEPT ![e].state = "work"]

(* A punch, a lunch-splitting punch or the sweep ends the shift. *)
ClockOut(e) ==
  /\ clock[e].state # "off"
  /\ clock' = [clock EXCEPT ![e] = Off]

Next ==
  \E e \in Employees :
    \/ \E j \in Jobs \cup {Null} : ClockIn(e, j)
    \/ \E j \in Jobs : SwitchJob(e, j)
    \/ BreakIn(e)
    \/ BreakOut(e)
    \/ ClockOut(e)

Spec == Init /\ [][Next]_clock
=============================================================================
