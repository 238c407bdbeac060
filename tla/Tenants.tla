------------------------------- MODULE Tenants -------------------------------
(***************************************************************************)
(* The scripts that make, tear down and hand over a tenant                 *)
(* (scripts/provision.sh, deprovision.sh, eject.sh), for one slug, run one *)
(* after another by an operator.  Any command may fail: under `set -e` a   *)
(* failed command (ERR) ends the script through its trap, `exit 1` ends it *)
(* without, and much is only warned of.                                    *)
(***************************************************************************)
EXTENDS Naturals

CONSTANTS
    Migrations,  \* files under db/migrations
    MaxRuns      \* bound: scripts run

VARIABLES
    platform,  \* what the shared platform holds for the slug
    job,       \* the script under way
    last,      \* the options and the outcome of the last one that ended
    runs

vars == <<platform, job, last, runs>>

Script == {"provision", "deprovision", "eject"}
Options == [dry : BOOLEAN, skipDb : BOOLEAN, skipRepo : BOOLEAN, skipMonitoring : BOOLEAN, deleteRepo : BOOLEAN]
Idle == [script |-> "none", pc |-> "none", schemaCreated |-> FALSE, folderUid |-> FALSE, repoCreated |-> FALSE]

TypeOK ==
    /\ platform.applied \in 0..Migrations /\ platform.repo \in {"none", "platform", "customer"}
    /\ {platform.schema, platform.role, platform.folder, platform.dashboard, platform.contact, platform.dump} \subseteq BOOLEAN
    /\ job.script \in Script \cup {"none"} /\ runs \in 0..MaxRuns
    /\ last.script \in Script \cup {"none"} /\ last.outcome \in {"none", "ok", "failed"} /\ last.options \in Options

NoOptions == [dry |-> FALSE, skipDb |-> FALSE, skipRepo |-> FALSE, skipMonitoring |-> FALSE, deleteRepo |-> FALSE]
Init ==
    /\ platform = [schema |-> FALSE, applied |-> 0, role |-> FALSE, folder |-> FALSE, dashboard |-> FALSE,
                   contact |-> FALSE, repo |-> "none", dump |-> FALSE]
    /\ job = Idle /\ last = [script |-> "none", options |-> NoOptions, outcome |-> "none"] /\ runs = 0

First == [provision |-> "schema", deprovision |-> "dropSchema", eject |-> "dump"]
\* The arguments are checked: --confirm or --dry-run, a slug, a tenant id.  Nothing is done before.
Start(s, o) ==
    /\ job = Idle /\ runs < MaxRuns /\ runs' = runs + 1
    /\ s = "provision" => ~ (o.skipDb \/ o.skipRepo \/ o.skipMonitoring \/ o.deleteRepo)
    /\ s = "deprovision" => ~ (o.skipDb \/ o.skipRepo \/ o.skipMonitoring)
    /\ s = "eject" => ~ o.deleteRepo
    /\ job' = [Idle EXCEPT !.script = s, !.pc = First[s]]
    /\ last' = [script |-> s, options |-> o, outcome |-> "none"] /\ UNCHANGED platform

Dry == last.options.dry
At(pc) == job.pc = pc
Goto(pc) == job' = [job EXCEPT !.pc = pc]
\* The script ends.
Ends(outcome) == job' = Idle /\ last' = [last EXCEPT !.outcome = outcome] /\ UNCHANGED runs
\* `exit 1`, or a failed command of a script that traps nothing.
Exit == Ends("failed") /\ UNCHANGED platform
\* A failed command of provision.sh: the trap on ERR.
Err == Goto("rollback") /\ UNCHANGED <<platform, last, runs>>
Step(pc, p) == Goto(pc) /\ platform' = p /\ UNCHANGED <<last, runs>>

-----------------------------------------------------------------------------
(* provision.sh *)

\* psql without ON_ERROR_STOP: each of its statements may fail and the script goes on.
CreateSchema ==
    /\ At("schema")
    /\ \/ Dry /\ Step("migrate", platform)
       \/ /\ ~ Dry
          /\ \E s, r \in BOOLEAN :
               /\ platform' = [platform EXCEPT !.schema = @ \/ s, !.role = @ \/ r, !.applied = IF platform.schema THEN @ ELSE 0]
               /\ job' = [job EXCEPT !.pc = "migrate", !.schemaCreated = TRUE]
          /\ UNCHANGED <<last, runs>>
       \/ Err

\* Mutant of Migrate: psql is run without ON_ERROR_STOP.
MigrateUnchecked ==
    /\ At("migrate")
    /\ \/ Dry /\ Step("repo", platform)
       \/ ~ Dry /\ platform.schema /\ \E n \in platform.applied..Migrations : Step("repo", [platform EXCEPT !.applied = n])
       \/ ~ Dry /\ Err

\* Each file and its row in one transaction; one that is there already, or fails, is an exit.  The ledger's own
\* table is a plain command, which fails without a schema.
Migrate ==
    /\ At("migrate")
    /\ \/ Dry /\ Step("repo", platform)
       \/ ~ Dry /\ platform.schema /\ platform.applied = 0 /\ Step("repo", [platform EXCEPT !.applied = Migrations])
       \/ /\ ~ Dry /\ platform.schema
          /\ \E n \in 0..(Migrations - 1) :
               platform' = [platform EXCEPT !.applied = IF platform.applied = 0 THEN n ELSE @]
          /\ Ends("failed")
       \/ ~ Dry /\ Err

\* Without a token or gh nothing is done; a failure of gh is taken for a success.
CreateRepo ==
    /\ At("repo")
    /\ \/ Step("folder", platform)
       \/ /\ ~ Dry
          /\ platform' = [platform EXCEPT !.repo = IF @ = "none" THEN "platform" ELSE @]
          /\ job' = [job EXCEPT !.pc = "folder", !.repoCreated = TRUE] /\ UNCHANGED <<last, runs>>
       \/ /\ ~ Dry /\ job' = [job EXCEPT !.pc = "folder", !.repoCreated = TRUE] /\ UNCHANGED <<platform, last, runs>>

\* Made, or found (409); the trap from here on deletes it.
CreateFolder ==
    /\ At("folder")
    /\ \/ /\ job' = [job EXCEPT !.pc = "dashboard", !.folderUid = TRUE]
          /\ platform' = IF Dry THEN platform ELSE [platform EXCEPT !.folder = TRUE]
          /\ UNCHANGED <<last, runs>>
       \/ ~ Dry /\ (Exit \/ Err)
UploadDashboard ==
    /\ At("dashboard")
    /\ \/ Step("alerts", IF Dry THEN platform ELSE [platform EXCEPT !.dashboard = TRUE])
       \/ ~ Dry /\ Exit
       \/ Err
\* The alert rules and the contact point: what Grafana refuses is warned of.
UploadAlerts ==
    /\ At("alerts")
    /\ \/ Step("finish", platform)
       \/ ~ Dry /\ Step("finish", [platform EXCEPT !.contact = TRUE])
       \/ Err
Provisioned == At("finish") /\ Ends("ok") /\ UNCHANGED platform

\* Mutant of Rollback: a dry run is rolled back too.
RollbackAlways ==
    /\ At("rollback")
    /\ platform' = [platform EXCEPT
            !.schema = @ /\ ~ job.schemaCreated, !.applied = IF job.schemaCreated THEN 0 ELSE @,
            !.role = @ /\ ~ job.schemaCreated, !.folder = @ /\ ~ job.folderUid, !.dashboard = @ /\ ~ job.folderUid,
            !.repo = IF job.repoCreated /\ @ = "platform" THEN "none" ELSE @]
    /\ Ends("failed")

\* rollback: what the flags say was made is deleted, each as far as that succeeds.
Rollback ==
    /\ At("rollback")
    /\ \/ /\ ~ Dry
          /\ \E s, f, g \in BOOLEAN :
               platform' = [platform EXCEPT
                   !.schema = @ /\ ~ (job.schemaCreated /\ s), !.applied = IF job.schemaCreated /\ s THEN 0 ELSE @,
                   !.role = @ /\ ~ (job.schemaCreated /\ s),
                   !.folder = @ /\ ~ (job.folderUid /\ f), !.dashboard = @ /\ ~ (job.folderUid /\ f),
                   !.repo = IF job.repoCreated /\ g /\ @ = "platform" THEN "none" ELSE @]
          /\ Ends("failed")
       \/ Dry /\ Exit

-----------------------------------------------------------------------------
(* deprovision.sh *)

DropSchema ==
    /\ At("dropSchema")
    /\ \/ Dry /\ Step("deleteRepo", platform)
       \/ ~ Dry /\ Step("dropRole", [platform EXCEPT !.schema = FALSE, !.applied = 0])
       \/ ~ Dry /\ Exit
DropRole ==
    /\ At("dropRole")
    /\ \/ Step("deleteRepo", [platform EXCEPT !.role = FALSE])
       \/ Exit
\* Only with --delete-repo and a token; a refusal is warned of.
DeleteRepo ==
    /\ At("deleteRepo")
    /\ \/ Step("deleteFolder", platform)
       \/ /\ ~ Dry /\ last.options.deleteRepo
          /\ Step("deleteFolder", [platform EXCEPT !.repo = IF @ = "platform" THEN "none" ELSE @])

-----------------------------------------------------------------------------
(* eject.sh *)

\* pg_dump and sed in a pipe, under pipefail.
ExportDump ==
    /\ At("dump")
    /\ \/ (Dry \/ last.options.skipDb) /\ Step("cleanRepo", platform)
       \/ ~ Dry /\ ~ last.options.skipDb /\ platform.schema /\ Step("cleanRepo", [platform EXCEPT !.dump = TRUE])
       \/ ~ Dry /\ ~ last.options.skipDb /\ Exit
\* Not signed in to GitHub, no repository, no clone: an exit.  The clean commit that cannot be pushed is warned of.
CleanRepo ==
    /\ At("cleanRepo")
    /\ \/ last.options.skipRepo /\ Step("deleteFolder", platform)
       \/ ~ last.options.skipRepo /\ (Dry \/ platform.repo # "none") /\ Step("transferRepo", platform)
       \/ ~ Dry /\ ~ last.options.skipRepo /\ Exit
\* Anything but a 202 is warned of.
TransferRepo ==
    /\ At("transferRepo")
    /\ \/ Step("deleteFolder", platform)
       \/ ~ Dry /\ Step("deleteFolder", [platform EXCEPT !.repo = "customer"])
       \/ ~ Dry /\ Exit

-----------------------------------------------------------------------------
\* The end of deprovision.sh and eject.sh: the folder with what is in it, and the contact point.
DeleteFolder ==
    /\ At("deleteFolder")
    /\ \/ Step("deleteContact", platform)
       \/ /\ ~ Dry /\ ~ last.options.skipMonitoring
          /\ Step("deleteContact", [platform EXCEPT !.folder = FALSE, !.dashboard = FALSE])
       \/ ~ Dry /\ ~ last.options.skipMonitoring /\ Exit
DeleteContact ==
    /\ At("deleteContact")
    /\ \/ UNCHANGED platform
       \/ ~ Dry /\ ~ last.options.skipMonitoring /\ platform' = [platform EXCEPT !.contact = FALSE]
    /\ Ends("ok")

Next ==
    \/ \E s \in Script, o \in Options : Start(s, o)
    \/ CreateSchema \/ Migrate \/ CreateRepo \/ CreateFolder \/ UploadDashboard \/ UploadAlerts \/ Provisioned \/ Rollback
    \/ DropSchema \/ DropRole \/ DeleteRepo \/ ExportDump \/ CleanRepo \/ TransferRepo \/ DeleteFolder \/ DeleteContact
Spec == Init /\ [][Next]_vars

-----------------------------------------------------------------------------
\* What a script that reports success has done, whatever was there before and
\* whatever of it was only warned of: a provisioned tenant has every migration,
\* its folder and its dashboard; a deprovisioned one has no schema and no role;
\* an ejected one has its dump.
SuccessIsWhole ==
    last.outcome = "ok" /\ ~ Dry =>
        CASE last.script = "provision" ->
                platform.schema /\ platform.applied = Migrations /\ platform.folder /\ platform.dashboard
          [] last.script = "deprovision" -> ~ platform.schema /\ ~ platform.role
          [] OTHER -> last.options.skipDb \/ platform.dump
\* "--dry-run: Print what would happen, do nothing": a dry run changes nothing of
\* the platform, a failed one with its trap included, though it remembers a folder.
DryRunTouchesNothing == [][job.script # "none" /\ Dry => platform' = platform]_vars

\* What keeps it so: a dry deprovision never comes to DROP ROLE, which asks no more.
Place == {"none", "schema", "migrate", "repo", "folder", "dashboard", "alerts", "finish", "rollback", "dropSchema",
          "dropRole", "deleteRepo", "dump", "cleanRepo", "transferRepo", "deleteFolder", "deleteContact"}
JobState == [script : Script \cup {"none"}, pc : Place, schemaCreated : BOOLEAN, folderUid : BOOLEAN, repoCreated : BOOLEAN]
Last == [script : Script \cup {"none"}, options : Options, outcome : {"none", "ok", "failed"}]
DryInv == job \in JobState /\ last \in Last /\ (At("dropRole") => ~ Dry)

\* "Trap to rollback on any failure after this point"; "Schema will be dropped
\* during rollback".  Does not hold: an `exit 1` runs no trap on ERR, and a failed
\* migration is one.
FailureIsRolledBack ==
    last.script = "provision" /\ last.outcome = "failed" /\ runs = 1 => ~ platform.schema
\* A rollback removes what its own run made.  Does not hold: a schema, a folder or
\* a repository found from before is taken for its own.
RollbackTouchesItsOwn ==
    [][job.pc = "rollback" /\ platform.applied = Migrations /\ runs > 1 => platform'.schema]_vars
\* A completed eject has handed the repository over.  Does not hold.
EjectHandsOver ==
    last.script = "eject" /\ last.outcome = "ok" /\ ~ Dry /\ ~ last.options.skipRepo => platform.repo = "customer"
=============================================================================
