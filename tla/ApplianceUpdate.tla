-------------------------- MODULE ApplianceUpdate --------------------------
(***************************************************************************)
(* update.sh on the appliance: it remembers what is installed, dumps the   *)
(* database, fetches source and images, recreates the api, which migrates  *)
(* the schema when it boots, and takes it all back if the api stays        *)
(* unhealthy with the schema where it was.  It may fail or be killed at    *)
(* any step, and others recreate the containers beside it.  Every backup,  *)
(* of an update or of the night, deletes the dumps of over 14 days ago.    *)
(***************************************************************************)
EXTENDS Naturals

CONSTANTS
  MaxRelease,  \* bound of the model: the newest release
  SchemaAt     \* how many migrations each release has

ASSUME ReleaseAssumption ==
  /\ MaxRelease \in Nat \ {0}
  /\ SchemaAt \in [1..MaxRelease -> Nat \ {0}]

VARIABLES
  published,  \* the newest release on the branch, and in the registry
  checkout,   \* the release that is checked out
  tagged,     \* the release whose api image has the tag
  api,        \* the release in the container, and whether it is healthy
  schema,     \* rows of knex_migrations
  dumps,      \* the schemas of which there is a dump
  old,        \* those of which every dump is over 14 days old
  rotated,    \* history: those of which the last dump was deleted for its age
  waived,     \* history: since "begun", an update was run with SKIP_BACKUP
  updater,    \* update.sh, and the rollback state it has captured
  begun       \* history: the schema of the working api that an update last began from

backups == <<dumps, old, rotated>>
releaseVars == <<published, checkout, tagged, api, schema, backups, waived, updater, begun>>

Unread == 0   \* "?": the count could not be read
NoImage == 0  \* the image could not be inspected

Updater == [pc : {"idle", "backup", "fetch", "pull", "up", "waiting", "failed",
                  "rollback", "restart"},
            sha : 0..MaxRelease, image : 0..MaxRelease, count : Nat]
NoUpdate == [pc |-> "idle", sha |-> 0, image |-> 0, count |-> 0]

(* Variables have their types, and an update knows what to go back to. *)
ReleaseTypeOK ==
  /\ published \in [source : 1..MaxRelease, image : 1..MaxRelease]
  /\ checkout \in 1..MaxRelease /\ tagged \in 1..MaxRelease
  /\ api \in [release : 1..MaxRelease, healthy : BOOLEAN]
  /\ schema \in Nat \ {0} /\ dumps \subseteq Nat \ {0} /\ begun \in Nat \ {0}
  /\ updater \in Updater
  /\ updater.pc # "idle" => updater.sha # 0
  /\ old \subseteq dumps /\ rotated \subseteq Nat \ {0} /\ waived \in BOOLEAN

ReleaseInit ==
  /\ published = [source |-> 1, image |-> 1]
  /\ checkout = 1 /\ tagged = 1 /\ api = [release |-> 1, healthy |-> TRUE]
  /\ schema = SchemaAt[1] /\ begun = SchemaAt[1]
  /\ dumps = {} /\ old = {} /\ rotated = {} /\ waived = FALSE
  /\ updater = NoUpdate

-----------------------------------------------------------------------------
(* Releases, and the api's container *)

PublishSource ==
  /\ published.source < MaxRelease
  /\ published' = [published EXCEPT !.source = @ + 1]
  /\ UNCHANGED <<checkout, tagged, api, schema, backups, waived, updater, begun>>

PublishImage ==
  /\ published.image < published.source
  /\ published' = [published EXCEPT !.image = published.source]
  /\ UNCHANGED <<checkout, tagged, api, schema, backups, waived, updater, begun>>

(* docker compose up -d: another image is another container; so is another
   configuration. *)
ComposeUp ==
  \/ api' = [release |-> tagged, healthy |-> FALSE]
  \/ api.release = tagged /\ UNCHANGED api

(* The api runs pending migrations when it boots, each in a transaction. *)
Migrate ==
  /\ ~api.healthy /\ schema < SchemaAt[api.release]
  /\ schema' = schema + 1
  /\ UNCHANGED <<published, checkout, tagged, api, backups, waived, updater, begun>>

(* It does not boot on a schema that has migrations it does not know. *)
BecomeHealthy ==
  /\ ~api.healthy /\ schema = SchemaAt[api.release]
  /\ api' = [api EXCEPT !.healthy = TRUE]
  /\ UNCHANGED <<published, checkout, tagged, schema, backups, waived, updater, begun>>

ApiCrashes ==
  /\ api.healthy /\ api' = [api EXCEPT !.healthy = FALSE]
  /\ UNCHANGED <<published, checkout, tagged, schema, backups, waived, updater, begun>>

-----------------------------------------------------------------------------
(* update.sh *)

Goto(step) == updater' = [updater EXCEPT !.pc = step]
Exit == updater' = NoUpdate

(* The image is that of the tag, whatever the container runs. *)
CaptureRollbackState ==
  /\ updater.pc = "idle"
  /\ \E count \in {schema, Unread}, image \in {tagged, NoImage} :
       updater' = [pc |-> "backup", sha |-> checkout, image |-> image, count |-> count]
  /\ \/ /\ api = [release |-> tagged, healthy |-> TRUE]
        /\ begun' = schema /\ waived' = FALSE
     \/ /\ api # [release |-> tagged, healthy |-> TRUE]
        /\ UNCHANGED <<begun, waived>>
  /\ UNCHANGED <<published, checkout, tagged, api, schema, backups>>

(* backup.sh: a dump, and then the old ones are deleted. *)
Dump ==
  /\ dumps' = (dumps \ old) \cup {schema} /\ old' = {}
  /\ rotated' = (rotated \cup old) \ {schema}

RunBackup ==
  /\ updater.pc = "backup" /\ Dump /\ Goto("fetch")
  /\ UNCHANGED <<published, checkout, tagged, api, schema, waived, begun>>

(* The operator has set SKIP_BACKUP. *)
SkipBackup ==
  /\ updater.pc = "backup" /\ Goto("fetch") /\ waived' = TRUE
  /\ UNCHANGED <<published, checkout, tagged, api, schema, backups, begun>>

(* Mutant of BackupFails: the update goes on. *)
BackupFailsUnnoticed ==
  /\ updater.pc = "backup" /\ Goto("fetch")
  /\ UNCHANGED <<published, checkout, tagged, api, schema, backups, waived, begun>>

BackupFails ==
  /\ updater.pc = "backup" /\ Exit
  /\ UNCHANGED <<published, checkout, tagged, api, schema, backups, waived, begun>>

FetchSource ==
  /\ updater.pc = "fetch"
  /\ \/ checkout' = published.source /\ Goto("pull")
     \/ UNCHANGED checkout /\ Exit
  /\ UNCHANGED <<published, tagged, api, schema, backups, waived, begun>>

PullImages ==
  /\ updater.pc = "pull" /\ tagged' = published.image /\ Goto("up")
  /\ UNCHANGED <<published, checkout, api, schema, backups, waived, begun>>

(* The api's image may have arrived when another fails. *)
PullFails ==
  /\ updater.pc = "pull" /\ tagged' \in {tagged, published.image}
  /\ checkout' = updater.sha /\ Exit
  /\ UNCHANGED <<published, api, schema, backups, waived, begun>>

BringUp ==
  /\ updater.pc = "up" /\ ComposeUp
  /\ Goto("waiting") \/ Exit
  /\ UNCHANGED <<published, checkout, tagged, schema, backups, waived, begun>>

WaitForHealth ==
  /\ updater.pc = "waiting"
  /\ IF api.healthy THEN Exit ELSE Goto("failed")
  /\ UNCHANGED <<published, checkout, tagged, api, schema, backups, waived, begun>>

(* Only if both counts were read and agree, and an image was captured: that of
   the web server is enough. *)
DecideRollback ==
  /\ updater.pc = "failed"
  /\ \/ Exit /\ \E count \in {schema, Unread} :
                  updater.count = Unread \/ count # updater.count \/ updater.image = NoImage
     \/ Goto("rollback") /\ updater.count = schema
  /\ UNCHANGED <<published, checkout, tagged, api, schema, backups, waived, begun>>

Rollback ==
  /\ updater.pc = "rollback"
  /\ checkout' = updater.sha /\ Goto("restart")
  /\ tagged' = IF updater.image = NoImage THEN tagged ELSE updater.image
  /\ UNCHANGED <<published, api, schema, backups, waived, begun>>

(* Whether the old api gets healthy or not, the script ends. *)
RestartPrevious ==
  /\ updater.pc = "restart" /\ ComposeUp /\ Exit
  /\ UNCHANGED <<published, checkout, tagged, schema, backups, waived, begun>>

UpdateKilled ==
  /\ updater.pc # "idle" /\ Exit
  /\ UNCHANGED <<published, checkout, tagged, api, schema, backups, waived, begun>>

-----------------------------------------------------------------------------
(* Beside it *)

(* The unit of the appliance takes the containers down and up again. *)
HostRestarts ==
  /\ api' = [release |-> tagged, healthy |-> FALSE] /\ Exit
  /\ UNCHANGED <<published, checkout, tagged, schema, backups, waived, begun>>

(* A change of the tunnel, applied with compose up. *)
ApplyTunnel ==
  /\ ComposeUp
  /\ UNCHANGED <<published, checkout, tagged, schema, backups, waived, updater, begun>>

(* cron, every night. *)
NightlyBackup ==
  /\ Dump
  /\ UNCHANGED <<published, checkout, tagged, api, schema, waived, updater, begun>>

(* Two weeks after the last dump of it. *)
DumpAges(dump) ==
  /\ dump \in dumps \ old /\ old' = old \cup {dump}
  /\ UNCHANGED <<published, checkout, tagged, api, schema, dumps, rotated, waived,
                 updater, begun>>

(* The operator restores a dump, and with it what the data was then. *)
Restore(dump) ==
  /\ updater.pc = "idle"
  /\ schema' = dump /\ begun' = dump
  /\ api' = [release |-> tagged, healthy |-> FALSE]
  /\ UNCHANGED <<published, checkout, tagged, backups, waived, updater>>

-----------------------------------------------------------------------------
ReleaseNext ==
  \/ PublishSource
  \/ PublishImage
  \/ Migrate
  \/ BecomeHealthy
  \/ ApiCrashes
  \/ CaptureRollbackState
  \/ RunBackup
  \/ SkipBackup
  \/ BackupFails
  \/ FetchSource
  \/ PullImages
  \/ PullFails
  \/ BringUp
  \/ WaitForHealth
  \/ DecideRollback
  \/ Rollback
  \/ RestartPrevious
  \/ UpdateKilled
  \/ HostRestarts
  \/ ApplyTunnel
  \/ NightlyBackup
  \/ \E dump \in dumps : DumpAges(dump) \/ Restore(dump)

ReleaseSpec == ReleaseInit /\ [][ReleaseNext]_releaseVars

-----------------------------------------------------------------------------
(* Properties *)

(* There is a way back: the database as a working appliance had it when an
   update began is there, or a dump of it is, through any number of updates
   that fail at any step, until one begins from a working appliance again.
   A dump goes only for its age, after 14 days, and only an operator who has
   told the script to skip the backup goes without one. *)
RestorePoint ==
  schema # begun => begun \in dumps \/ begun \in rotated \/ waived
=============================================================================
