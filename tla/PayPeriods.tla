----------------------------- MODULE PayPeriods -----------------------------
(***************************************************************************)
(* Pay periods and work weeks: day after day, the period that resolves for *)
(* it, in a time zone with summer time.  Days are numbered, day 0 is a     *)
(* Sunday; instants are counted in units of which summer time moves one.   *)
(***************************************************************************)
EXTENDS Integers

CONSTANTS
  DayLength,    \* units of a day without a change of the clock
  Spring, Fall, \* the days on which the clock changes, after midnight
  MonthStarts,  \* the first days of months
  LastDay,      \* bound of the model
  Calendars     \* [type, weekStartDay, anchor: a day] of companies

ASSUME PayPeriodsAssumption ==
  /\ DayLength \in Nat \ {0, 1} /\ LastDay \in Nat
  /\ Spring \in Nat /\ Fall \in Nat /\ Spring < Fall
  /\ Calendars \subseteq [type : {"weekly", "bi_weekly", "semi_monthly", "monthly"},
                          weekStartDay : 0..6, anchor : Int]

(* A day lies in a month, which has 28 to 31 days. *)
ASSUME MonthsAssumption ==
  /\ MonthStarts \subseteq Int
  /\ \A d \in 0..LastDay : \E m, next \in MonthStarts :
       /\ m <= d /\ d < next /\ next - m \in 28..31
       /\ \A m2 \in MonthStarts : m2 <= m \/ next <= m2

VARIABLES
  calendar,   \* the company's
  today,
  period      \* what resolves for today

periodVars == <<calendar, today, period>>

-----------------------------------------------------------------------------
(* Days in the company's zone *)

Midnight(d) == d * DayLength - (IF d \in (Spring + 1)..Fall THEN 1 ELSE 0)

(* isoDateInTz: the civil day of an instant, a day or two from x / DayLength. *)
CivilDay(x) ==
  CHOOSE d \in (x \div DayLength - 1)..(x \div DayLength + 1) :
    Midnight(d) <= x /\ x < Midnight(d + 1)

(* addDaysInTz, of a midnight *)
AddDays(x, n) == Midnight(CivilDay(x) + n)

MonthStart(d) ==
  CHOOSE m \in MonthStarts : m <= d /\ \A m2 \in MonthStarts : m2 <= d => m2 <= m

NextMonth(m) ==
  CHOOSE m2 \in MonthStarts : m2 > m /\ \A m3 \in MonthStarts : m3 > m => m2 <= m3

-----------------------------------------------------------------------------
(* resolvePayPeriod.  A weekly period is also the work week of overtime. *)

WorkWeekStart(d, weekStartDay) == Midnight(d - ((d - weekStartDay) % 7))

Weekly(d, cal) ==
  LET start == WorkWeekStart(d, cal.weekStartDay) IN [start |-> start, end |-> AddDays(start, 7)]

BiWeekly(d, cal) ==
  LET anchorStart == WorkWeekStart(cal.anchor, cal.weekStartDay)
      deltaDays == (Midnight(d) - anchorStart) \div DayLength
      start == AddDays(anchorStart, (deltaDays \div 14) * 14)
  IN  [start |-> start, end |-> AddDays(start, 14)]

(* Mutant of SemiMonthly: the first half is a day short. *)
SemiMonthlyShort(d) ==
  LET m == MonthStart(d) IN
  IF d - m < 15 THEN [start |-> Midnight(m), end |-> AddDays(Midnight(m), 14)]
  ELSE [start |-> AddDays(Midnight(m), 15), end |-> Midnight(NextMonth(m))]

SemiMonthly(d) ==
  LET m == MonthStart(d) IN
  IF d - m < 15 THEN [start |-> Midnight(m), end |-> AddDays(Midnight(m), 15)]
  ELSE [start |-> AddDays(Midnight(m), 15), end |-> Midnight(NextMonth(m))]

Monthly(d) ==
  LET m == MonthStart(d) IN [start |-> Midnight(m), end |-> Midnight(NextMonth(m))]

ResolvePayPeriod(d, cal) ==
  CASE cal.type = "weekly" -> Weekly(d, cal)
    [] cal.type = "bi_weekly" -> BiWeekly(d, cal)
    [] cal.type = "semi_monthly" -> SemiMonthly(d)
    [] cal.type = "monthly" -> Monthly(d)

-----------------------------------------------------------------------------
(* Variables have their types; a period is not empty. *)
PeriodTypeOK ==
  /\ calendar \in Calendars /\ today \in 0..LastDay
  /\ period.start \in Int /\ period.end \in Int /\ period.start < period.end

PeriodInit ==
  /\ calendar \in Calendars /\ today = 0
  /\ period = ResolvePayPeriod(0, calendar)

(* A punch, a timesheet or a reminder of the next day resolves its period. *)
NextDay ==
  /\ today < LastDay
  /\ today' = today + 1
  /\ period' = ResolvePayPeriod(today + 1, calendar)
  /\ UNCHANGED calendar

PeriodNext == NextDay

PeriodSpec == PeriodInit /\ [][PeriodNext]_periodVars

-----------------------------------------------------------------------------
(* Properties *)

(* As days go by, the period stays, or the next one begins where it ends: no
   time is in two periods or in none, through every change of the clock. *)
PeriodsTile == [][period' # period => period'.start = period.end]_periodVars

(* The period that resolves for a day contains it. *)
PeriodContainsDate == period.start <= Midnight(today) /\ Midnight(today) < period.end
=============================================================================
