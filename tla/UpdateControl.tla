--------------------------- MODULE UpdateControl ---------------------------
(***************************************************************************)
(* Updating the appliance from the browser: the server leaves a request    *)
(* file on a shared volume, the host's path unit notices it and a script   *)
(* updates, reports in a status file and removes the request.              *)
(***************************************************************************)
EXTENDS Naturals

CONSTANT Operators  \* super administrators that click Update

VARIABLES
  requested,   \* request.json exists
  written,     \* request.json.tmp exists
  noticed,     \* the path unit has seen request.json change
  script,      \* update-from-request.sh
  reported,    \* the state in status.json
  clicks,      \* what each operator's request is about to do
  unserved     \* history: the operators whose request no update has begun after

updateVars == <<requested, written, noticed, script, reported, clicks, unserved>>

(* Variables have their types; an operator waits for an update to begin only
   after a click. *)
UpdateTypeOK ==
  /\ requested \in BOOLEAN /\ written \in BOOLEAN /\ noticed \in BOOLEAN
  /\ script \in {"idle", "started", "updating", "reported", "ending"}
  /\ reported \in {"none", "running", "finished"}
  /\ clicks \in [Operators -> {"idle", "write", "rename"}]
  /\ unserved \subseteq Operators
  /\ script = "updating" => reported = "running"

UpdateInit ==
  /\ requested = FALSE /\ written = FALSE /\ noticed = FALSE
  /\ script = "idle" /\ reported = "none" /\ unserved = {}
  /\ clicks = [o \in Operators |-> "idle"]

-----------------------------------------------------------------------------
(* Mutant of UpdateInProgress: a request may replace another, as that of a
   tunnel change does. *)
NeverInProgress == FALSE

(* isUpdateInProgress *)
UpdateInProgress == requested \/ reported = "running"

RequestUpdate(o) ==
  /\ clicks[o] = "idle" /\ ~UpdateInProgress
  /\ clicks' = [clicks EXCEPT ![o] = "write"]
  /\ unserved' = unserved \cup {o}
  /\ UNCHANGED <<requested, written, noticed, script, reported>>

WriteRequest(o) ==
  /\ clicks[o] = "write"
  /\ clicks' = [clicks EXCEPT ![o] = "rename"]
  /\ written' = TRUE
  /\ UNCHANGED <<requested, noticed, script, reported, unserved>>

(* All use one temporary name: who comes second has nothing to rename, and
   answers with an error. *)
RenameRequest(o) ==
  /\ clicks[o] = "rename"
  /\ clicks' = [clicks EXCEPT ![o] = "idle"]
  /\ written' = FALSE
  /\ requested' = (requested \/ written) /\ noticed' = (noticed \/ written)
  /\ unserved' = IF written THEN unserved ELSE unserved \ {o}
  /\ UNCHANGED <<script, reported>>

ApiStops ==
  /\ \E o \in Operators : clicks[o] # "idle"
  /\ unserved' = unserved \ {o \in Operators : clicks[o] # "idle"}
  /\ clicks' = [o \in Operators |-> "idle"]
  /\ UNCHANGED <<requested, written, noticed, script, reported>>

-----------------------------------------------------------------------------
(* The host *)

(* systemd: the service of a path that changed is started, if it is not active. *)
PathChanged ==
  /\ noticed /\ script = "idle"
  /\ script' = "started" /\ noticed' = FALSE
  /\ UNCHANGED <<requested, written, reported, clicks, unserved>>

BeginUpdate ==
  /\ script = "started"
  /\ IF requested THEN script' = "updating" /\ reported' = "running" /\ unserved' = {}
     ELSE script' = "ending" /\ UNCHANGED <<reported, unserved>>
  /\ UNCHANGED <<requested, written, noticed, clicks>>

(* update.sh ran, whatever came of it. *)
ReportUpdate ==
  /\ script = "updating"
  /\ script' = "reported" /\ reported' = "finished"
  /\ UNCHANGED <<requested, written, noticed, clicks, unserved>>

RemoveRequest ==
  /\ script = "reported"
  /\ script' = "ending" /\ requested' = FALSE
  /\ noticed' = (noticed \/ requested)
  /\ UNCHANGED <<written, reported, clicks, unserved>>

(* systemd may forget a change that it saw while the service was active. *)
UpdateEnds ==
  /\ script = "ending"
  /\ script' = "idle" /\ noticed' \in {noticed, FALSE}
  /\ UNCHANGED <<requested, written, reported, clicks, unserved>>

(* A reboot: the path unit only notices later changes. *)
HostStops ==
  /\ script' = "idle" /\ noticed' = FALSE
  /\ unserved' = unserved \ {o \in Operators : clicks[o] # "idle"}
  /\ clicks' = [o \in Operators |-> "idle"]
  /\ UNCHANGED <<requested, written, reported>>

-----------------------------------------------------------------------------
UpdateNext ==
  \/ \E o \in Operators : RequestUpdate(o) \/ WriteRequest(o) \/ RenameRequest(o)
  \/ ApiStops
  \/ PathChanged
  \/ BeginUpdate
  \/ ReportUpdate
  \/ RemoveRequest
  \/ UpdateEnds
  \/ HostStops

UpdateSpec == UpdateInit /\ [][UpdateNext]_updateVars

-----------------------------------------------------------------------------
(* Properties *)

(* No click is lost: when the request file is gone and nothing is under way,
   an update has begun after every click that was not answered with an error. *)
UpdateServed ==
  (~requested /\ script = "idle" /\ \A o \in Operators : clicks[o] = "idle") => unserved = {}
=============================================================================
