----------------------------- MODULE Reminders -----------------------------
(***************************************************************************)
(* Reminders of missing time after a pay period: the hourly job, which two *)
(* workers may run at once and which may stop or be run again, claims a    *)
(* row per employee and day before it sends.  Managers send reminders too. *)
(***************************************************************************)
EXTENDS Integers, FiniteSets

CONSTANTS
  Workers,
  Reminded,     \* the employees
  ReminderMax,  \* missing_time_reminder_max
  ReminderDays  \* bound of the model: days after the end of the period

ASSUME RemindersAssumption == ReminderMax \in Nat /\ ReminderDays \in Nat \ {0}

VARIABLES
  reminderDay,  \* the company's local date
  missing,      \* the employees who have missing days and may be reminded
  claims,       \* missing_time_reminders, trigger auto: [who, day]
  sweeps,       \* what each worker's job has still to do
  autoSent      \* history: the automatic reminders that were handed on, [who, day, worker]

reminderVars == <<reminderDay, missing, claims, sweeps, autoSent>>

Claims == [who : Reminded, day : 1..ReminderDays]
NoSweep == [due |-> {}, claimed |-> {}]

(* Variables have their types; a worker sends what it has claimed, one by one. *)
ReminderTypeOK ==
  /\ reminderDay \in 1..ReminderDays /\ missing \subseteq Reminded /\ claims \subseteq Claims
  /\ sweeps \in [Workers -> [due : SUBSET Reminded, claimed : SUBSET Reminded]]
  /\ \A w \in Workers : Cardinality(sweeps[w].claimed) <= 1
  /\ autoSent \subseteq [who : Reminded, day : 1..ReminderDays, worker : Workers]

ReminderInit ==
  /\ reminderDay = 1 /\ missing \in SUBSET Reminded /\ claims = {} /\ autoSent = {}
  /\ sweeps = [w \in Workers |-> NoSweep]

-----------------------------------------------------------------------------
Sweeping == {w \in Workers : sweeps[w] # NoSweep}

SentTo(e) == {c \in claims : c.who = e}

(* Mutant of Due: the cap is off by one. *)
DueLate == {e \in missing : Cardinality(SentTo(e)) <= ReminderMax}

Due == {e \in missing : Cardinality(SentTo(e)) < ReminderMax}

(* sweepCompany reads who is due. *)
StartSweep(w) ==
  /\ w \notin Sweeping
  /\ sweeps' = [sweeps EXCEPT ![w].due = Due]
  /\ UNCHANGED <<reminderDay, missing, claims, autoSent>>

(* The unique index of automatic reminders ignores a second claim. *)
ClaimReminder(w, e) ==
  LET c == [who |-> e, day |-> reminderDay] IN
  /\ e \in sweeps[w].due /\ sweeps[w].claimed = {}
  /\ claims' = claims \cup {c}
  /\ sweeps' = [sweeps EXCEPT ![w] = [due |-> @.due \ {e},
                                      claimed |-> IF c \in claims THEN {} ELSE {e}]]
  /\ UNCHANGED <<reminderDay, missing, autoSent>>

(* A failure is logged, and the claim stays. *)
RemindEmployee(w) ==
  /\ sweeps[w].claimed # {}
  /\ \/ autoSent' = autoSent \cup
                      {[who |-> e, day |-> reminderDay, worker |-> w] : e \in sweeps[w].claimed}
     \/ UNCHANGED autoSent
  /\ sweeps' = [sweeps EXCEPT ![w].claimed = {}]
  /\ UNCHANGED <<reminderDay, missing, claims>>

(* A worker stops in the middle; its job is run again, by any worker. *)
SweepDies(w) ==
  /\ w \in Sweeping
  /\ sweeps' = [sweeps EXCEPT ![w] = NoSweep]
  /\ UNCHANGED <<reminderDay, missing, claims, autoSent>>

(* Somebody adds the missing time, is excused, or has time missing again. *)
FillDay(e) ==
  /\ missing' = IF e \in missing THEN missing \ {e} ELSE missing \cup {e}
  /\ UNCHANGED <<reminderDay, claims, sweeps, autoSent>>

(* A sweep ends within the hour it was started in. *)
ReminderNextDay ==
  /\ Sweeping = {} /\ reminderDay < ReminderDays
  /\ reminderDay' = reminderDay + 1
  /\ UNCHANGED <<missing, claims, sweeps, autoSent>>

ReminderNext ==
  \/ \E w \in Workers :
       \/ StartSweep(w)
       \/ \E e \in Reminded : ClaimReminder(w, e)
       \/ RemindEmployee(w)
       \/ SweepDies(w)
  \/ \E e \in Reminded : FillDay(e)
  \/ ReminderNextDay

ReminderSpec == ReminderInit /\ [][ReminderNext]_reminderVars

-----------------------------------------------------------------------------
(* Properties *)

(* However many workers sweep, and stop and sweep again, an employee gets one
   automatic reminder a day and the company's number of them in all. *)
RemindersBounded ==
  /\ \A m1, m2 \in autoSent : (m1.who = m2.who /\ m1.day = m2.day) => m1 = m2
  /\ \A e \in Reminded : Cardinality({m \in autoSent : m.who = e}) <= ReminderMax
=============================================================================
