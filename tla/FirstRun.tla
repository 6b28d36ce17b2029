------------------------------ MODULE FirstRun ------------------------------
(***************************************************************************)
(* The setup wizard of a new appliance, which anybody on the network may   *)
(* open, several at once, and which must create one super administrator.   *)
(* Procedures of the operator change the database behind it.               *)
(***************************************************************************)
EXTENDS Naturals

CONSTANTS
  Wizards,
  MaxSuperAdmins  \* bound of the model

ASSUME FirstRunAssumption == MaxSuperAdmins \in Nat

VARIABLES
  installation,  \* appliance_settings.installation_id
  superAdmins,   \* the users of that role, disabled ones included
  wizardMade,    \* history: how many of them a wizard created
  settingUp      \* the transaction of each wizard

setupVars == <<installation, superAdmins, wizardMade, settingUp>>

(* Variables have their types; one transaction has stamped the installation. *)
SetupTypeOK ==
  /\ installation \in {"pending-setup", "stamped", "cleared"}
  /\ superAdmins \in 0..MaxSuperAdmins /\ wizardMade \in Nat
  /\ settingUp \in [Wizards -> {"idle", "stamp", "create"}]
  /\ \A w1, w2 \in Wizards : settingUp[w1] = "create" /\ settingUp[w2] = "create" => w1 = w2

SetupInit ==
  /\ installation = "pending-setup" /\ superAdmins = 0 /\ wizardMade = 0
  /\ settingUp = [w \in Wizards |-> "idle"]

IsSetupComplete == installation = "stamped" \/ superAdmins > 0

Steps(w, pc) == settingUp' = [settingUp EXCEPT ![w] = pc]

BeginSetup(w) ==
  /\ settingUp[w] = "idle" /\ ~IsSetupComplete
  /\ Steps(w, "stamp")
  /\ UNCHANGED <<installation, superAdmins, wizardMade>>

(* Mutant of StampInstallation: UPDATE without the sentinel in its WHERE. *)
StampAnything(w) ==
  /\ settingUp[w] = "stamp"
  /\ \A v \in Wizards : settingUp[v] # "create"
  /\ Steps(w, "create")
  /\ UNCHANGED <<installation, superAdmins, wizardMade>>

(* The row lock makes the second wizard wait, and look at the row again. *)
StampInstallation(w) ==
  /\ settingUp[w] = "stamp"
  /\ \A v \in Wizards : settingUp[v] # "create"
  /\ Steps(w, IF installation = "pending-setup" THEN "create" ELSE "idle")
  /\ UNCHANGED <<installation, superAdmins, wizardMade>>

(* The user and the company are inserted, and all of it is committed. *)
CreateSuperAdmin(w) ==
  /\ settingUp[w] = "create" /\ superAdmins < MaxSuperAdmins
  /\ installation' = "stamped"
  /\ superAdmins' = superAdmins + 1 /\ wizardMade' = wizardMade + 1
  /\ Steps(w, "idle")

SetupFails(w) ==
  /\ settingUp[w] # "idle"
  /\ Steps(w, "idle")
  /\ UNCHANGED <<installation, superAdmins, wizardMade>>

(* A clean-up script clears the installation id, which is NOT NULL and may be
   empty; the row is not locked. *)
CleanUpInstallation ==
  /\ \A w \in Wizards : settingUp[w] # "create"
  /\ installation' = "cleared"
  /\ UNCHANGED <<superAdmins, wizardMade, settingUp>>

(* A super administrator appoints another one. *)
Appoint ==
  /\ superAdmins \in 1..(MaxSuperAdmins - 1)
  /\ superAdmins' = superAdmins + 1
  /\ UNCHANGED <<installation, wizardMade, settingUp>>

SetupNext ==
  \/ \E w \in Wizards :
       \/ BeginSetup(w)
       \/ StampInstallation(w)
       \/ CreateSuperAdmin(w)
       \/ SetupFails(w)
  \/ CleanUpInstallation
  \/ Appoint

SetupSpec == SetupInit /\ [][SetupNext]_setupVars

(* The wizard makes one super administrator in the life of an appliance, even
   if several wizards pass the first look at once and whatever an operator's
   procedures do to the installation id before, in between or later. *)
SetUpOnce == wizardMade <= 1
=============================================================================
