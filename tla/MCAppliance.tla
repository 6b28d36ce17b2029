---------------------------- MODULE MCAppliance ----------------------------
(***************************************************************************)
(* Smaller components beside the time clock, checked in one run.  They     *)
(* share no state, so a behaviour is one of one of them, chosen at the     *)
(* start: their states add up and do not multiply.                         *)
(***************************************************************************)
EXTENDS MagicLinks, Kiosk, Badges, FirstRun, Reminders, PayrollExports, MCPayPeriods,
        UpdateControl, OfflineQueue

CONSTANTS b1, b2  \* employees with badges

VARIABLE part  \* the component of this behaviour

MCSheets == {<<b1, b2>>, <<b2, b1>>, <<b1>>}

mcVars == <<linkVars, kioskVars, badgeVars, setupVars, reminderVars, exportVars, periodVars,
            updateVars, vars, part>>

(* What another component might begin with does not matter. *)
Fixed(component, value, choices) ==
  part # component => value = CHOOSE v \in choices : TRUE

ApplianceInit ==
  /\ part \in {"links", "kiosks", "badges", "setup", "reminders", "exports", "periods",
               "updates", "queue"}
  /\ LinkInit
  /\ KioskInit
  /\ BadgeInit
  /\ SetupInit
  /\ ReminderInit /\ Fixed("reminders", missing, SUBSET Reminded)
  /\ ExportInit /\ Fixed("exports", approved, BOOLEAN)
  /\ PeriodInit /\ Fixed("periods", calendar, Calendars)
  /\ UpdateInit
  /\ Init

ApplianceNext ==
  \/ /\ part = "links" /\ LinkNext
     /\ UNCHANGED <<kioskVars, badgeVars, setupVars, reminderVars, exportVars,
                    periodVars, updateVars, vars, part>>
  \/ /\ part = "kiosks" /\ KioskNext
     /\ UNCHANGED <<linkVars, badgeVars, setupVars, reminderVars, exportVars,
                    periodVars, updateVars, vars, part>>
  \/ /\ part = "badges" /\ BadgeNext
     /\ UNCHANGED <<linkVars, kioskVars, setupVars, reminderVars, exportVars,
                    periodVars, updateVars, vars, part>>
  \/ /\ part = "setup" /\ SetupNext
     /\ UNCHANGED <<linkVars, kioskVars, badgeVars, reminderVars, exportVars,
                    periodVars, updateVars, vars, part>>
  \/ /\ part = "reminders" /\ ReminderNext
     /\ UNCHANGED <<linkVars, kioskVars, badgeVars, setupVars, exportVars,
                    periodVars, updateVars, vars, part>>
  \/ /\ part = "exports" /\ ExportNext
     /\ UNCHANGED <<linkVars, kioskVars, badgeVars, setupVars, reminderVars,
                    periodVars, updateVars, vars, part>>
  \/ /\ part = "periods" /\ PeriodNext
     /\ UNCHANGED <<linkVars, kioskVars, badgeVars, setupVars, reminderVars,
                    exportVars, updateVars, vars, part>>
  \/ /\ part = "updates" /\ UpdateNext
     /\ UNCHANGED <<linkVars, kioskVars, badgeVars, setupVars, reminderVars,
                    exportVars, periodVars, vars, part>>
  \/ /\ part = "queue" /\ Next
     /\ UNCHANGED <<linkVars, kioskVars, badgeVars, setupVars, reminderVars,
                    exportVars, periodVars, updateVars, part>>

(* The fairness of two components.  Of the behaviours of another it asks
   nothing: there nobody opens a link, and no drain begins. *)
ApplianceSpec ==
  /\ ApplianceInit /\ [][ApplianceNext]_mcVars
  /\ LinkFairness
  /\ Fairness

(* The variables of the component have their types, and what else its type
   invariant says of its tables holds. *)
ApplianceTypeOK ==
  /\ part = "links" => LinkTypeOK
  /\ part = "kiosks" => KioskTypeOK
  /\ part = "badges" => BadgeTypeOK
  /\ part = "setup" => SetupTypeOK
  /\ part = "reminders" => ReminderTypeOK
  /\ part = "exports" => ExportTypeOK
  /\ part = "periods" => PeriodTypeOK
  /\ part = "updates" => UpdateTypeOK
  /\ part = "queue" => TypeOK
=============================================================================
