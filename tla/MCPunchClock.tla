---------------------------- MODULE MCPunchClock ----------------------------
(* PunchClock on small instances for TLC. *)
EXTENDS PunchClock

Untouched == [start |-> Undefined, end |-> Undefined,
              job |-> Undefined, type |-> Undefined]

NoPatches == {}

(* Move the start on, reopen, turn work into a break. *)
ReviewPatches ==
  {[Untouched EXCEPT !.start = MaxTime], [Untouched EXCEPT !.end = Null],
   [Untouched EXCEPT !.type = "break"]}

(* "I was here at opening time." *)
EarlierStart == {[Untouched EXCEPT !.start = 0]}

NoNewEntries == {}

ForgottenHour ==
  {[emp |-> e, type |-> "work", job |-> Null, start |-> 0, end |-> 1] : e \in Employees}
=============================================================================
