-------------------------- MODULE TimesheetTotals --------------------------
(***************************************************************************)
(* The totals of a timesheet: entries are clipped to the pay period, and   *)
(* work is rounded at both ends.  One employee, whose shifts are recorded  *)
(* one after another.                                                      *)
(***************************************************************************)
EXTENDS Integers, Sequences, FiniteSetsExt

CONSTANTS
  Roundings,   \* [interval, grace] of companies; interval 0: no rounding
  PeriodEnds,  \* where the pay period that is looked at may end; it begins at 0
  Horizon,     \* bounds of the model: the last instant
  MaxShifts

ASSUME TotalsAssumption ==
  /\ Roundings \subseteq [interval : Nat, grace : Nat]
  /\ PeriodEnds \subseteq Nat /\ Horizon \in Nat /\ MaxShifts \in Nat

VARIABLES
  shifts,     \* what the employee has recorded, in order
  rounding,   \* the company's
  cut         \* the end of the pay period

totalsVars == <<shifts, rounding, cut>>

Shift == [start : 0..Horizon, end : 0..Horizon, type : {"work", "break", "timeOff"}]

-----------------------------------------------------------------------------
(* roundTimestamp *)

(* Mutant of Tie: a clock-in rounds down and a clock-out up. *)
TieSwapped(lower, upper, direction) == IF direction = "in" THEN lower ELSE upper

Tie(lower, upper, direction) == IF direction = "in" THEN upper ELSE lower

Rounded(t, direction) ==
  LET i == rounding.interval IN
  IF i = 0 THEN t
  ELSE LET lower == (t \div i) * i
           upper == lower + i
       IN  IF rounding.grace > 0 /\ Min({t - lower, upper - t}) > rounding.grace THEN t
           ELSE IF t - lower = upper - t THEN Tie(lower, upper, direction)
           ELSE IF t - lower < upper - t THEN lower ELSE upper

RoundedDuration(start, end) == Max({0, Rounded(end, "out") - Rounded(start, "in")})

-----------------------------------------------------------------------------
(* buildTimesheetSummary, of the period from..to-1 *)

Clipped(s, from, to) == [s EXCEPT !.start = Max({@, from}), !.end = Min({@, to})]

InPeriod(from, to) ==
  {k \in DOMAIN shifts : Clipped(shifts[k], from, to).start < Clipped(shifts[k], from, to).end}

(* Work is rounded; breaks and time off are not. *)
Counted(k, from, to) ==
  LET s == Clipped(shifts[k], from, to) IN
  IF s.type = "work" THEN RoundedDuration(s.start, s.end) ELSE s.end - s.start

(* What a loop that adds the amounts up has at its end. *)
Tally(amounts) ==
  LET sum[k \in 0..Len(amounts)] == IF k = 0 THEN 0 ELSE sum[k - 1] + amounts[k]
  IN  sum[Len(amounts)]

Total(type, from, to) ==
  Tally([k \in 1..Len(shifts) |->
           IF k \in InPeriod(from, to) /\ shifts[k].type = type THEN Counted(k, from, to) ELSE 0])

-----------------------------------------------------------------------------
(* Variables have their types; shifts follow each other. *)
TotalsTypeOK ==
  /\ shifts \in Seq(Shift)
  /\ \A k \in DOMAIN shifts : shifts[k].start < shifts[k].end
  /\ \A k \in 2..Len(shifts) : shifts[k-1].end <= shifts[k].start
  /\ rounding \in Roundings /\ cut \in PeriodEnds

TotalsInit == shifts = <<>> /\ rounding \in Roundings /\ cut \in PeriodEnds

RecordShift(s) ==
  /\ Len(shifts) < MaxShifts /\ s.start < s.end
  /\ shifts # <<>> => shifts[Len(shifts)].end <= s.start
  /\ shifts' = Append(shifts, s)
  /\ UNCHANGED <<rounding, cut>>

TotalsNext == \E s \in Shift : RecordShift(s)

TotalsSpec == TotalsInit /\ [][TotalsNext]_totalsVars

-----------------------------------------------------------------------------
(* Properties *)

(* Rounding counts no time twice: however many shifts there are, and however
   they touch, the work of a period is no more than the rounded span from the
   first clock-in to the last clock-out, or to the end of the period. *)
NothingCountedTwice ==
  shifts # <<>> =>
    Total("work", 0, cut) <=
      Max({0, Rounded(Min({cut, shifts[Len(shifts)].end}), "out") - Rounded(shifts[1].start, "in")})
=============================================================================
