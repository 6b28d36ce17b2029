---------------------------- MODULE MCManualGrid ----------------------------
(***************************************************************************)
(* Manual entries on the server, the page that makes most of them, the     *)
(* forms on settings and records, and what the screens show of changes,    *)
(* checked in one run.  They share no state, so a behaviour is one of one  *)
(* of them, chosen at the start.                                           *)
(***************************************************************************)
EXTENDS MCManualEntries, WeeklyGrid, SettingsForms, ScreenCache

CONSTANTS c0, c1  \* a day of the weekly grid: a cell without a job, and one of a job

MCTakes == [c \in GridCells |-> IF c = c0 THEN GridCells ELSE {c}]

VARIABLE part  \* the component of this behaviour

mcVars == <<manualVars, gridVars, formVars, screenVars, part>>

(* What another component might begin with does not matter. *)
Fixed(component, value, choices) ==
  part # component => value = CHOOSE v \in choices : TRUE

(* The owners are alike, so it does not matter whose week is opened first.  At
   first there are punches of the job only; others come with OthersChange. *)
Init ==
  /\ part \in {"manual", "grid", "forms", "screens"}
  /\ ManualInit
  /\ GridInit /\ person = CHOOSE owner \in Owners : TRUE
  /\ \A owner \in Owners, cell \in GridCells :
       part # "grid" \/ owner # person \/ cell = c0 => punched[owner][cell] = 0
  /\ form \in Forms /\ Fixed("forms", form, Forms)
  /\ FormInit
  /\ Fixed("forms", fields, {{f} : f \in form.names})
  /\ Fixed("forms", stored, [fields -> Values])
  /\ ScreenInit
  /\ Fixed("screens", role, Everyone) /\ Fixed("screens", query, Followed)

Next ==
  \/ part = "manual" /\ ManualNext /\ UNCHANGED <<gridVars, formVars, screenVars, part>>
  \/ part = "grid" /\ GridNext /\ UNCHANGED <<manualVars, formVars, screenVars, part>>
  \/ part = "forms" /\ FormNext /\ UNCHANGED <<manualVars, gridVars, screenVars, part>>
  \/ part = "screens" /\ ScreenNext /\ UNCHANGED <<manualVars, gridVars, formVars, part>>

Spec == Init /\ [][Next]_mcVars

(* The variables of the component have their types. *)
TypeOK ==
  /\ part = "manual" => ManualTypeOK
  /\ part = "grid" => GridTypeOK
  /\ part = "forms" => FormTypeOK
  /\ part = "screens" => ScreenTypeOK
=============================================================================
