----------------------------- MODULE MCPeople -----------------------------
(***************************************************************************)
(* Components in which people act on the same rows, and updates of the     *)
(* appliance, checked in one run.  They share no state, so a behaviour is  *)
(* one of one of them, chosen at the start: their states add up and do     *)
(* not multiply.                                                           *)
(***************************************************************************)
EXTENDS Sessions, AccessGroups, EmployeePins, Corrections, TimesheetTotals,
        PhoneCodes, KioskScreen, ApplianceUpdate, TLC

CONSTANT People  \* whoever acts in a component

VARIABLE part  \* the component of this behaviour

MCRoundings ==
  {[interval |-> 0, grace |-> 0], [interval |-> 2, grace |-> 0],
   [interval |-> 4, grace |-> 0], [interval |-> 4, grace |-> 1]}

(* Of three releases, the second adds two migrations and the third none. *)
MCSchemaAt == <<1, 3, 3>>

MCSymmetry == Permutations(People)

mcVars == <<sessionVars, accessVars, pinVars, correctionVars, totalsVars, phoneVars,
            tabletVars, releaseVars, part>>

(* What another component might begin with does not matter. *)
Fixed(component, value, choices) ==
  part # component => value = CHOOSE v \in choices : TRUE

Init ==
  /\ part \in {"sessions", "groups", "pins", "corrections", "totals", "phones",
               "tablet", "releases"}
  /\ SessionInit
  /\ AccessInit
  /\ PinInit
  /\ CorrectionInit
  /\ TotalsInit /\ Fixed("totals", rounding, Roundings) /\ Fixed("totals", cut, PeriodEnds)
  /\ PhoneInit
  /\ TabletInit /\ Fixed("tablet", authMode, AuthModes)
  /\ ReleaseInit

Next ==
  \/ /\ part = "sessions" /\ SessionNext
     /\ UNCHANGED <<accessVars, pinVars, correctionVars, totalsVars, phoneVars,
                    tabletVars, releaseVars, part>>
  \/ /\ part = "groups" /\ AccessNext
     /\ UNCHANGED <<sessionVars, pinVars, correctionVars, totalsVars, phoneVars,
                    tabletVars, releaseVars, part>>
  \/ /\ part = "pins" /\ PinNext
     /\ UNCHANGED <<sessionVars, accessVars, correctionVars, totalsVars, phoneVars,
                    tabletVars, releaseVars, part>>
  \/ /\ part = "corrections" /\ CorrectionNext
     /\ UNCHANGED <<sessionVars, accessVars, pinVars, totalsVars, phoneVars,
                    tabletVars, releaseVars, part>>
  \/ /\ part = "totals" /\ TotalsNext
     /\ UNCHANGED <<sessionVars, accessVars, pinVars, correctionVars, phoneVars,
                    tabletVars, releaseVars, part>>
  \/ /\ part = "phones" /\ PhoneNext
     /\ UNCHANGED <<sessionVars, accessVars, pinVars, correctionVars, totalsVars,
                    tabletVars, releaseVars, part>>
  \/ /\ part = "tablet" /\ TabletNext
     /\ UNCHANGED <<sessionVars, accessVars, pinVars, correctionVars, totalsVars,
                    phoneVars, releaseVars, part>>
  \/ /\ part = "releases" /\ ReleaseNext
     /\ UNCHANGED <<sessionVars, accessVars, pinVars, correctionVars, totalsVars,
                    phoneVars, tabletVars, part>>

Spec == Init /\ [][Next]_mcVars

(* The variables of the component have their types, and what else its type
   invariant says of its tables holds. *)
TypeOK ==
  /\ part = "sessions" => SessionTypeOK
  /\ part = "groups" => AccessTypeOK
  /\ part = "pins" => PinTypeOK
  /\ part = "corrections" => CorrectionTypeOK
  /\ part = "totals" => TotalsTypeOK
  /\ part = "phones" => PhoneTypeOK
  /\ part = "tablet" => TabletTypeOK
  /\ part = "releases" => ReleaseTypeOK
=============================================================================
