-------------------------- MODULE RestoreCoordinator --------------------------
(***************************************************************************)
(* The legacy-database restore (internal/migration/restore*.go): one run   *)
(* of RestoreCoordinator.Run.  It stops the backend service, archives the  *)
(* freshly installed database, drops and recreates it, loads the legacy    *)
(* dump, restarts the backend, and on a failure either restarts the        *)
(* backend over the untouched database or rolls the database back from     *)
(* the archive.                                                            *)
(*                                                                         *)
(* A state of the coordinator is the call it has in flight (pc) and the    *)
(* phase that call belongs to, because StartService, WaitHealthy, the      *)
(* PostgreSQL probes and Replace are called from two or three phases.      *)
(* Calls are linearised: a call that returns success before its context    *)
(* ends succeeded, so a call succeeds only while its context is live.  A   *)
(* call may fail at any time.  A failed docker command is ambiguous: the   *)
(* client was killed or lost its answer, and the daemon may or may not     *)
(* have carried the command out.                                           *)
(***************************************************************************)
CONSTANTS
    Platforms,                 \* the GOOS/GOARCH pairs Run is called with
    DestinationTrailingSlash,  \* the backup root ends in "/", as defaultBackupRoot does
    PsListsStopped             \* docker compose ps lists the services that have stopped

\* HealthStatus calls "docker compose ps --format json" without --all, which lists only what
\* runs: the program's PsListsStopped is FALSE.  TRUE is the Compose of the repository's
\* fakes, and the program's if the call passed --all.
ASSUME PlatformsAssumption == Platforms \subseteq STRING
ASSUME SlashAssumption == DestinationTrailingSlash \in BOOLEAN
ASSUME PsAssumption == PsListsStopped \in BOOLEAN

VARIABLES
    pc,         \* the call in flight, "done" once Run has returned
    phase,      \* whose call it is: Run, recoverBeforeCutover or rollback
    stopErr,    \* rollback's stopErr
    outcome, stage, mutated, rollback, healthy, code,
                \* the RestoreResult under construction, field by field
    cancelled,  \* the caller's context has ended
    expired,    \* the 30 s recovery context has ended
    db,         \* what the target database holds
    backend,    \* what Compose reports of the backend service
    orphans,    \* database commands whose client was killed, still running
    orphaned,   \* some command outlived its client (history)
    staging,    \* the .target-rollback-*.part file exists
    published,  \* the target backup and its manifest are published
    archive,    \* the staged or published archive against the installed data
    pgpassLeft, \* whose credential directories could not be removed
    fault       \* a collaborator failed although its context was live (history)

result    == <<outcome, stage, mutated, rollback, healthy, code>>
control   == <<pc, phase, stopErr, result>>
contexts  == <<cancelled, expired>>
target    == <<db, orphans, orphaned>>
artefacts == <<staging, published, archive>>
vars == <<control, contexts, target, backend, artefacts, pgpassLeft, fault>>

SupportedPlatforms == {"linux/amd64", "linux/arm64"}

Steps == {"gate", "wait", "identity", "stop", "credentials", "legacy", "postgres",
          "dump", "stageCheck", "archiveCheck", "publish",
          "terminate", "drop", "create", "load", "validate",
          "identity2", "start", "health", "proof", "revalidate", "postgres2",
          "finalStop", "done"}
Phases    == {"forward", "recovery", "rollback"}
Contents  == {"installed", "absent", "empty", "partial", "legacy"}
Backends  == {"stopped", "starting", "healthy"}
Running   == {"starting", "healthy"}
Commands  == {"drop", "create", "load legacy", "load installed"}
Archives  == {"none", "current", "stale"}
Credentials == {"probe", "dump", "replacement"}
Outcomes  == {"Succeeded", "FailedBeforeCutover", "CancelledBeforeCutover",
              "PartialCutover", "Unsupported"}
Stages    == {"PlatformGate", "Wait", "Credentials", "LegacyRevalidation",
              "BackendStop", "PostgresCheck", "TargetBackup", "TargetReplacement",
              "RestoreValidation", "BackendStart", "BackendHealth"}
Rollbacks == {"NotRequired", "Succeeded", "Failed", "Cancelled"}
Codes     == {"restore-precondition", "restore-unsupported", "restore-cancelled",
              "restore-wait", "restore-postgres-identity", "restore-backend-stop",
              "restore-credentials", "restore-legacy", "restore-postgres",
              "restore-target-backup", "restore-primary-failed",
              "restore-backend-start", "restore-backend-health",
              "restore-backend-recovery", "restore-rollback-postgres",
              "restore-rollback-stop", "restore-rollback-revalidate",
              "restore-rollback-failed", "restore-rollback-recovery",
              "restore-succeeded"}

\* A RestoreResult starts with Go's zero values: RestoreSucceeded, RollbackNotRequired.
Init ==
    /\ pc = "gate" /\ phase = "forward" /\ stopErr = FALSE
    /\ outcome = "Succeeded" /\ stage = "PlatformGate" /\ mutated = FALSE
    /\ rollback = "NotRequired" /\ healthy = FALSE /\ code = "restore-precondition"
    /\ cancelled = FALSE /\ expired = FALSE
    /\ db = "installed" /\ backend = "healthy" /\ orphans = {} /\ orphaned = FALSE
    /\ staging = FALSE /\ published = FALSE /\ archive = "none"
    /\ pgpassLeft = {} /\ fault = FALSE

-----------------------------------------------------------------------------
(* Contexts, and the ways a call returns.                                   *)

\* The context of the call in flight: the caller's, or the bounded recovery one.
Live == IF phase = "forward" THEN ~cancelled ELSE ~expired

Ok     == Live /\ UNCHANGED fault
Failed == fault' = IF Live THEN TRUE ELSE fault

\* A call that is over removes its credential directory, which may itself fail.
CredentialRemoved(caller) == pgpassLeft' \in {pgpassLeft, pgpassLeft \union {caller}}

Goto(step) == pc' = step /\ UNCHANGED <<phase, stopErr, result, expired>>

Return == pc' = "done" /\ UNCHANGED <<phase, stopErr, mutated, expired>>

ReturnBeforeCutover(failedStage, reason) ==
    /\ Return
    /\ stage' = failedStage
    /\ outcome' = IF cancelled THEN "CancelledBeforeCutover" ELSE "FailedBeforeCutover"
    /\ code' = IF cancelled THEN "restore-cancelled" ELSE reason
    /\ UNCHANGED <<rollback, healthy>>

\* recoverBeforeCutover: a fresh recovery context, then StartService and WaitHealthy.
RecoverBeforeCutover(failedStage, reason) ==
    /\ phase' = "recovery" /\ pc' = "start" /\ expired' = FALSE
    /\ stage' = failedStage /\ code' = reason
    /\ UNCHANGED <<stopErr, outcome, mutated, rollback, healthy>>

\* rollback: a fresh recovery context, then the first PostgreSQL probes.
Rollback(failedStage, reason) ==
    /\ phase' = "rollback" /\ pc' = "postgres" /\ expired' = FALSE
    /\ outcome' = "PartialCutover" /\ stage' = failedStage /\ code' = reason
    /\ UNCHANGED <<stopErr, rollback, healthy>>

RollbackStatus == IF expired THEN "Cancelled" ELSE "Failed"

RollbackFails(reason) ==
    /\ Return
    /\ rollback' = RollbackStatus /\ code' = reason
    /\ UNCHANGED <<outcome, stage, healthy>>

-----------------------------------------------------------------------------
(* Run up to the backend stop.                                              *)

Gate ==
    /\ pc = "gate"
    /\ \E platform \in Platforms, complete \in BOOLEAN :
         \/ /\ platform \notin SupportedPlatforms
            /\ Return /\ outcome' = "Unsupported" /\ code' = "restore-unsupported"
            /\ UNCHANGED <<stage, rollback, healthy>>
         \/ /\ platform \in SupportedPlatforms
            /\ IF complete THEN Goto("wait")
               ELSE ReturnBeforeCutover("PlatformGate", "restore-precondition")
    /\ UNCHANGED <<cancelled, target, backend, artefacts, pgpassLeft, fault>>

\* RealWaiter fails only when the caller's context ends.
Wait ==
    /\ pc = "wait"
    /\ \/ Goto("identity")
       \/ cancelled /\ ReturnBeforeCutover("Wait", "restore-wait")
    /\ UNCHANGED <<cancelled, target, backend, artefacts, pgpassLeft, fault>>

ProveIdentity ==
    /\ pc = "identity"
    /\ \/ Ok /\ Goto("stop")
       \/ Failed /\ ReturnBeforeCutover("PostgresCheck", "restore-postgres-identity")
    /\ UNCHANGED <<cancelled, target, backend, artefacts, pgpassLeft>>

StopBackend ==
    /\ pc = "stop" /\ phase = "forward"
    /\ \/ Ok /\ backend' = "stopped" /\ Goto("credentials")
       \/ /\ Failed /\ backend' \in {backend, "stopped"}
          /\ ReturnBeforeCutover("BackendStop", "restore-backend-stop")
    /\ UNCHANGED <<cancelled, target, artefacts, pgpassLeft>>

-----------------------------------------------------------------------------
(* The gates between the backend stop and the replacement.                  *)

ReadTargetDatabase ==
    /\ pc = "credentials"
    /\ \/ Ok /\ Goto("legacy")
       \/ Failed /\ RecoverBeforeCutover("Credentials", "restore-credentials")
    /\ UNCHANGED <<cancelled, target, backend, artefacts, pgpassLeft>>

RevalidateLegacy ==
    /\ pc = "legacy"
    /\ \/ Ok /\ Goto("postgres")
       \/ Failed /\ RecoverBeforeCutover("LegacyRevalidation", "restore-legacy")
    /\ UNCHANGED <<cancelled, target, backend, artefacts, pgpassLeft>>

\* PostgreSQLIdentity.Prove, then PostgreSQL.Reachable, which discards Cleanup's error.
CheckPostgres ==
    /\ pc = "postgres" /\ phase = "forward"
    /\ \/ Ok /\ Goto("dump")
       \/ Failed /\ RecoverBeforeCutover("PostgresCheck", "restore-postgres")
    /\ CredentialRemoved("probe")
    /\ UNCHANGED <<cancelled, target, backend, artefacts>>

\* Mutant: a refused target backup returns and leaves the backend stopped.
MutTargetBackupRefused == ReturnBeforeCutover("TargetBackup", "restore-target-backup")

TargetBackupRefused == RecoverBeforeCutover("TargetBackup", "restore-target-backup")

\* TargetRollbackBackupAdapter.stage: pg_dump into an exclusively created .part file,
\* which stage itself removes when it fails.  It too discards Cleanup's error.
StageTargetDump ==
    /\ pc = "dump"
    /\ \/ Ok /\ staging' = TRUE /\ archive' = "current" /\ Goto("stageCheck")
       \/ Failed /\ TargetBackupRefused /\ UNCHANGED <<staging, archive>>
    /\ CredentialRemoved("dump")
    /\ UNCHANGED <<cancelled, target, backend, published>>

\* safeTargetStaging compares filepath.Dir(staged), which never ends in a slash, with
\* the destination as given.  The deferred removal of the .part file is not yet set.
CheckTargetStaging ==
    /\ pc = "stageCheck"
    /\ \/ Ok /\ ~DestinationTrailingSlash /\ Goto("archiveCheck")
       \/ DestinationTrailingSlash /\ TargetBackupRefused /\ UNCHANGED fault
       \/ Failed /\ TargetBackupRefused
    /\ UNCHANGED <<cancelled, target, backend, artefacts, pgpassLeft>>

ValidateTargetDump ==
    /\ pc = "archiveCheck"
    /\ \/ Ok /\ Goto("publish") /\ UNCHANGED artefacts
       \/ /\ Failed /\ staging' = FALSE /\ archive' = "none" /\ UNCHANGED published
          /\ TargetBackupRefused
    /\ UNCHANGED <<cancelled, target, backend, pgpassLeft>>

\* Mutant: a failed publication is not noticed.
MutPublishTargetRollback ==
    /\ pc = "publish"
    /\ staging' = FALSE /\ published' \in BOOLEAN /\ Goto("terminate")
    /\ UNCHANGED <<archive, fault, cancelled, target, backend, pgpassLeft>>

\* publishTargetRollback looks at no context.
PublishTargetRollback ==
    /\ pc = "publish"
    /\ staging' = FALSE
    /\ \/ published' = TRUE /\ Goto("terminate") /\ UNCHANGED <<archive, fault>>
       \/ /\ archive' = "none" /\ fault' = TRUE /\ UNCHANGED published
          /\ TargetBackupRefused
    /\ UNCHANGED <<cancelled, target, backend, pgpassLeft>>

-----------------------------------------------------------------------------
(* TargetReplacementAdapter.Replace and RunTargetReplacement, called by Run  *)
(* with the legacy dump and by rollback with the target backup.              *)

\* Mutants: one archive whichever phase calls.
MutSourceInstalled == "installed"
MutSourceLegacy == "legacy"

Source == IF phase = "rollback" THEN "installed" ELSE "legacy"
Load   == IF phase = "rollback" THEN "load installed" ELSE "load legacy"

\* Mutant: Run does not look at the mutation flag.
MutReplaceFails(m) ==
    /\ mutated' = m
    /\ IF phase = "rollback" THEN RollbackFails("restore-rollback-failed")
       ELSE RecoverBeforeCutover("TargetReplacement", "restore-primary-failed")

\* Replace returns an error and the mutation flag m, which rollback ignores.
ReplaceFails(m) ==
    /\ mutated' = m
    /\ IF phase = "rollback" THEN RollbackFails("restore-rollback-failed")
       ELSE IF m THEN Rollback("TargetReplacement", "restore-primary-failed")
       ELSE RecoverBeforeCutover("TargetReplacement", "restore-primary-failed")

\* A failed database command took effect, did not, or goes on without its client.
Ambiguous(command, effects) ==
    \/ db' \in effects /\ UNCHANGED <<orphans, orphaned>>
    \/ orphans' = orphans \union {command} /\ orphaned' = TRUE /\ UNCHANGED db

TerminateSessions ==
    /\ pc = "terminate"
    /\ \/ Ok /\ Goto("drop") /\ UNCHANGED pgpassLeft
       \/ Failed /\ ReplaceFails(mutated) /\ CredentialRemoved("replacement")
    /\ UNCHANGED <<cancelled, target, backend, artefacts>>

\* Mutant: the mutation flag is raised once dropdb has succeeded.
MutDropDatabase ==
    /\ pc = "drop"
    /\ \/ /\ Ok /\ db' = "absent" /\ pc' = "create" /\ mutated' = TRUE
          /\ UNCHANGED <<phase, stopErr, expired, orphans, orphaned, pgpassLeft>>
          /\ UNCHANGED <<outcome, stage, rollback, healthy, code>>
       \/ /\ Failed /\ Ambiguous("drop", {db, "absent"})
          /\ ReplaceFails(mutated) /\ CredentialRemoved("replacement")
    /\ UNCHANGED <<cancelled, backend, artefacts>>

\* The mutation flag is raised after the context check and before dropdb.
DropDatabase ==
    /\ pc = "drop"
    /\ \/ /\ ~Live /\ ReplaceFails(mutated) /\ CredentialRemoved("replacement")
          /\ UNCHANGED <<fault, target>>
       \/ /\ Ok /\ db' = "absent" /\ pc' = "create" /\ mutated' = TRUE
          /\ UNCHANGED <<phase, stopErr, expired, orphans, orphaned, pgpassLeft>>
          /\ UNCHANGED <<outcome, stage, rollback, healthy, code>>
       \/ /\ Failed /\ Ambiguous("drop", {db, "absent"})
          /\ ReplaceFails(TRUE) /\ CredentialRemoved("replacement")
    /\ UNCHANGED <<cancelled, backend, artefacts>>

CreateDatabase ==
    /\ pc = "create"
    /\ \/ /\ Ok /\ db = "absent" /\ db' = "empty" /\ Goto("load")
          /\ UNCHANGED <<orphans, orphaned, pgpassLeft>>
       \/ /\ Failed /\ ReplaceFails(mutated) /\ CredentialRemoved("replacement")
          /\ Ambiguous("create", {db} \union (IF db = "absent" THEN {"empty"} ELSE {}))
    /\ UNCHANGED <<cancelled, backend, artefacts>>

\* pg_restore --exit-on-error loads an empty database or stops part of the way.
LoadEffects(content) == {db} \union (IF db = "empty" THEN {"partial", content} ELSE {})

RestoreArchive ==
    /\ pc = "load"
    /\ \/ /\ Ok /\ db = "empty" /\ db' = Source /\ Goto("validate")
          /\ UNCHANGED <<orphans, orphaned, pgpassLeft>>
       \/ /\ Failed /\ ReplaceFails(mutated) /\ CredentialRemoved("replacement")
          /\ Ambiguous(Load, LoadEffects(Source))
    /\ UNCHANGED <<cancelled, backend, artefacts>>

\* validate.sql counts application tables; a removal failure after a successful
\* validation makes the whole replacement fail.
ValidateDatabase ==
    /\ pc = "validate"
    /\ \/ /\ Ok /\ db \notin {"absent", "empty"} /\ UNCHANGED pgpassLeft
          /\ Goto(IF phase = "rollback" THEN "start" ELSE "identity2")
       \/ Failed /\ ReplaceFails(mutated) /\ CredentialRemoved("replacement")
    /\ UNCHANGED <<cancelled, target, backend, artefacts>>

-----------------------------------------------------------------------------
(* After the replacement: start the backend and probe its health.           *)

ProveIdentityAgain ==
    /\ pc = "identity2"
    /\ \/ Ok /\ Goto("start")
       \/ /\ Failed /\ UNCHANGED mutated
          /\ Rollback("RestoreValidation", "restore-postgres-identity")
    /\ UNCHANGED <<cancelled, target, backend, artefacts, pgpassLeft>>

Started == IF backend = "stopped" THEN "starting" ELSE backend

\* What a failing StartService or WaitHealthy leads to in each phase.
BackendUnavailable(failedStage, reason) ==
    CASE phase = "forward"  -> Rollback(failedStage, reason) /\ UNCHANGED mutated
      [] phase = "recovery" -> ReturnBeforeCutover(stage, "restore-backend-recovery")
      [] phase = "rollback" -> Goto("finalStop")

StartBackend ==
    /\ pc = "start"
    /\ \/ Ok /\ backend' = Started /\ Goto("health")
       \/ /\ Failed /\ backend' \in {backend, Started}
          /\ BackendUnavailable("BackendStart", "restore-backend-start")
    /\ UNCHANGED <<cancelled, target, artefacts, pgpassLeft>>

BackendHealthy ==
    \/ /\ phase = "forward" /\ Return /\ UNCHANGED stage
       /\ outcome' = "Succeeded" /\ rollback' = "NotRequired"
       /\ healthy' = TRUE /\ code' = "restore-succeeded"
    \/ phase = "recovery" /\ ReturnBeforeCutover(stage, code)
    \/ /\ phase = "rollback" /\ Return /\ UNCHANGED <<outcome, stage, code>>
       /\ rollback' = "Succeeded" /\ healthy' = TRUE

\* WaitHealthy asks Compose once: a backend whose healthcheck is still "starting" is
\* unhealthy, and nothing at fault.
WaitHealthy ==
    /\ pc = "health"
    /\ \/ Ok /\ backend = "healthy" /\ BackendHealthy
       \/ /\ \/ Failed
             \/ backend = "starting" /\ UNCHANGED fault
          /\ BackendUnavailable("BackendHealth", "restore-backend-health")
    /\ UNCHANGED <<cancelled, target, backend, artefacts, pgpassLeft>>

-----------------------------------------------------------------------------
(* rollback up to its replacement, and its last stop.                       *)

RollbackPostgres ==
    /\ phase = "rollback" /\ pc \in {"postgres", "postgres2"}
    /\ \/ Ok /\ Goto(IF pc = "postgres" THEN "stop" ELSE "terminate")
       \/ Failed /\ RollbackFails("restore-rollback-postgres")
    /\ CredentialRemoved("probe")
    /\ UNCHANGED <<cancelled, target, backend, artefacts>>

\* StopService's error is kept while the proof is taken.
RollbackStop ==
    /\ pc = "stop" /\ phase = "rollback"
    /\ pc' = "proof"
    /\ \/ Ok /\ backend' = "stopped" /\ stopErr' = FALSE
       \/ Failed /\ backend' \in {backend, "stopped"} /\ stopErr' = TRUE
    /\ UNCHANGED <<phase, result, expired, cancelled, target, artefacts, pgpassLeft>>

\* Mutant: rollback goes on without the proof that the backend is stopped.
MutRollbackProof ==
    /\ pc = "proof" /\ Goto("revalidate")
    /\ UNCHANGED <<fault, cancelled, target, backend, artefacts, pgpassLeft>>

\* BackendStopped runs under a recovery context of its own: it is not bound by expired.
\* A backend that is not listed is an error, so the stop is proved only if Compose lists it.
RollbackProof ==
    /\ pc = "proof"
    /\ \E proved \in BOOLEAN :
         /\ proved => backend = "stopped" /\ PsListsStopped
         /\ fault' = IF ~proved /\ backend = "stopped" /\ PsListsStopped THEN TRUE ELSE fault
         /\ IF proved /\ ~stopErr THEN Goto("revalidate")
            ELSE /\ Return /\ code' = "restore-rollback-stop"
                 /\ rollback' = IF expired /\ proved THEN "Cancelled" ELSE "Failed"
                 /\ UNCHANGED <<outcome, stage, healthy>>
    /\ UNCHANGED <<cancelled, target, backend, artefacts, pgpassLeft>>

RollbackRevalidate ==
    /\ pc = "revalidate"
    /\ \/ Ok /\ Goto("postgres2")
       \/ Failed /\ RollbackFails("restore-rollback-revalidate")
    /\ UNCHANGED <<cancelled, target, backend, artefacts, pgpassLeft>>

\* Mutant: a rollback without a healthy backend removes its archive.
MutRollbackFinalStopCleans ==
    /\ pc = "finalStop" /\ Ok /\ backend' = "stopped" /\ published' = FALSE
    /\ RollbackFails("restore-rollback-recovery")
    /\ UNCHANGED <<cancelled, target, staging, archive, pgpassLeft>>

\* Mutant: a rollback without a healthy backend starts it again.
MutRollbackFinalStopRetries ==
    /\ pc = "finalStop" /\ Goto("start")
    /\ UNCHANGED <<fault, backend, cancelled, target, artefacts, pgpassLeft>>

\* The error of the last StopService is discarded.
RollbackFinalStop ==
    /\ pc = "finalStop"
    /\ \/ Ok /\ backend' = "stopped"
       \/ Failed /\ backend' \in {backend, "stopped"}
    /\ RollbackFails("restore-rollback-recovery")
    /\ UNCHANGED <<cancelled, target, artefacts, pgpassLeft>>

-----------------------------------------------------------------------------
(* The surroundings: the caller, the timer, the containers.                 *)

Cancel ==
    /\ pc # "done" /\ ~cancelled
    /\ cancelled' = TRUE
    /\ UNCHANGED <<control, expired, target, backend, artefacts, pgpassLeft, fault>>

ExpireRecovery ==
    /\ pc # "done" /\ phase # "forward" /\ ~expired
    /\ expired' = TRUE
    /\ UNCHANGED <<control, cancelled, target, backend, artefacts, pgpassLeft, fault>>

HealthcheckPasses ==
    /\ backend = "starting"
    /\ backend' = "healthy"
    /\ UNCHANGED <<control, contexts, target, artefacts, pgpassLeft, fault>>

\* A running backend writes to the installed database: the archive falls behind.
BackendWrites ==
    /\ backend \in Running /\ db = "installed" /\ archive = "current"
    /\ archive' = "stale"
    /\ UNCHANGED <<control, contexts, target, backend, staging, published, pgpassLeft, fault>>

OrphanEffects(command) ==
    CASE command = "drop"           -> {"absent"}
      [] command = "create"         -> IF db = "absent" THEN {"empty"} ELSE {db}
      [] command = "load legacy"    -> LoadEffects("legacy")
      [] command = "load installed" -> LoadEffects("installed")

OrphanLands ==
    /\ \E command \in orphans :
         orphans' = orphans \ {command} /\ db' \in OrphanEffects(command)
    /\ UNCHANGED <<control, contexts, orphaned, backend, artefacts, pgpassLeft, fault>>

-----------------------------------------------------------------------------
Run ==
    \/ Gate \/ Wait \/ ProveIdentity \/ StopBackend
    \/ ReadTargetDatabase \/ RevalidateLegacy \/ CheckPostgres
    \/ StageTargetDump \/ CheckTargetStaging \/ ValidateTargetDump \/ PublishTargetRollback
    \/ TerminateSessions \/ DropDatabase \/ CreateDatabase \/ RestoreArchive \/ ValidateDatabase
    \/ ProveIdentityAgain \/ StartBackend \/ WaitHealthy
    \/ RollbackPostgres \/ RollbackStop \/ RollbackProof \/ RollbackRevalidate
    \/ RollbackFinalStop

Environment == Cancel \/ ExpireRecovery \/ HealthcheckPasses \/ BackendWrites \/ OrphanLands

Next == Run \/ Environment

\* Every call returns: docker commands are killed at their timeout, the wait is a timer.
Fairness == WF_vars(Run)

Spec == Init /\ [][Next]_vars /\ Fairness

-----------------------------------------------------------------------------
ControlTypeOK ==
    /\ pc \in Steps /\ phase \in Phases /\ stopErr \in BOOLEAN
    /\ cancelled \in BOOLEAN /\ expired \in BOOLEAN

ResultTypeOK ==
    /\ outcome \in Outcomes /\ stage \in Stages /\ mutated \in BOOLEAN
    /\ rollback \in Rollbacks /\ healthy \in BOOLEAN /\ code \in Codes

WorldTypeOK ==
    /\ db \in Contents /\ backend \in Backends /\ orphans \subseteq Commands
    /\ orphaned \in BOOLEAN
    /\ staging \in BOOLEAN /\ published \in BOOLEAN /\ archive \in Archives
    /\ pgpassLeft \subseteq Credentials /\ fault \in BOOLEAN

\* One type invariant for the coordinator, its result and the system it acts on.
TypeOK == ControlTypeOK /\ ResultTypeOK /\ WorldTypeOK

Done == pc = "done"
BeforeCutoverOutcomes == {"FailedBeforeCutover", "CancelledBeforeCutover", "Unsupported"}

\* A result that says "before cutover" is true: whatever failed, the installed database
\* was not touched, the mutation flag is down, and nothing still running can touch it.
BeforeCutoverMeansUntouched ==
    Done /\ outcome \in BeforeCutoverOutcomes
        => db = "installed" /\ ~mutated /\ orphans = {}

\* Run reports success only with the legacy data in place, the backend started on it,
\* no command left running, and the credential directory of the replacement removed: the
\* one whose removal it answers for.
SuccessMeansLegacyServed ==
    Done /\ outcome = "Succeeded"
        => /\ db = "legacy" /\ backend \in Running /\ orphans = {}
           /\ published /\ "replacement" \notin pgpassLeft /\ mutated

\* A run that ends in a rollback, whatever the rollback reports, is a partial cutover, and
\* a backend it leaves running serves whole data: the installed data once the rollback has
\* reloaded it, the legacy data if it gave up before.  A rollback that reports success has
\* left the backend running.  Excepted is a command that outlived its client.
RollbackVerdictIsTrue ==
    Done /\ rollback # "NotRequired" /\ ~orphaned
        => /\ outcome = "PartialCutover"
           /\ rollback = "Succeeded" => backend \in Running
           /\ backend \in Running =>
                db = IF rollback = "Succeeded" \/ code = "restore-rollback-recovery"
                     THEN "installed" ELSE "legacy"

\* At every instant, so also if the installer dies there: a database that is not the
\* installed one implies a published archive, and one that misses none of the backend's
\* writes as long as no command has outlived its client.
NothingDroppedUnarchived ==
    db # "installed" => published /\ (orphaned \/ archive = "current")

\* A before-cutover result that blames neither the stop nor the recovery, and was not
\* cancelled, leaves the backend running.
UncancelledFailureServesAgain ==
    Done /\ outcome = "FailedBeforeCutover"
         /\ code \notin {"restore-backend-stop", "restore-backend-recovery"}
        => backend \in Running

\* The target backup is refused only when a collaborator failed or the run was cancelled.
TargetBackupRefusedOnlyOnFault ==
    Done /\ stage = "TargetBackup" => fault \/ cancelled

\* The contents of the database change only while the backend is stopped, as long as no
\* command has outlived its client.
QuietCutover ==
    [][db' # db /\ ~orphaned => backend = "stopped" /\ backend' = "stopped"]_vars

\* The archive, once published, is never withdrawn: the published backup survives every
\* later failure, cancellation and rollback.
BackupPreserved == [][published => published' /\ (archive' # archive => db = "installed")]_vars

\* Every run returns a result, whatever fails and whenever it is cancelled: no recovery
\* and no rollback is repeated for ever.
Terminates == <>Done

-----------------------------------------------------------------------------
(* The inductive invariant: where each phase can be, and what holds there.  *)

\* Run before the backend stop, from the stop to the drop, and after the drop.
BeforeStop == {"gate", "wait", "identity", "stop"}
Gates      == {"credentials", "legacy", "postgres", "dump", "stageCheck",
               "archiveCheck", "publish", "terminate", "drop"}
Unpublished == {"credentials", "legacy", "postgres", "dump", "stageCheck",
                "archiveCheck", "publish"}
Archived   == {"stageCheck", "archiveCheck", "publish", "terminate", "drop"}
AfterDrop  == {"create", "load", "validate", "identity2", "start", "health"}

\* rollback before it has proved the backend stopped, and from there to its own start.
Unproved == {"postgres", "stop", "proof"}
Proved   == {"revalidate", "postgres2", "terminate", "drop", "create", "load",
             "validate", "start"}

\* Which calls belong to which phase.
PhaseInv ==
    /\ phase = "forward"  => pc \in BeforeStop \union Gates \union AfterDrop \union {"done"}
    /\ phase = "recovery" => pc \in {"start", "health", "done"}
    /\ phase = "rollback" => pc \in Unproved \union Proved \union {"health", "finalStop", "done"}

\* The mutation flag: down means untouched, up means a published archive, and each
\* phase knows which.
MutationInv ==
    /\ ~mutated => db = "installed"
    /\ mutated => published
    /\ phase = "forward" => ~orphaned
    /\ phase = "forward" /\ pc \in BeforeStop \union Gates => ~mutated
    /\ phase = "forward" /\ pc \in AfterDrop => mutated
    /\ phase = "recovery" => ~mutated /\ ~orphaned
    /\ phase = "rollback" => mutated
    /\ pc \in {"terminate", "drop"} => published
    /\ ~orphaned => orphans = {}

\* The result while it is built, and how it is classified when Run returns.
ResultInv ==
    /\ phase = "forward" /\ ~Done =>
         outcome = "Succeeded" /\ rollback = "NotRequired" /\ "replacement" \notin pgpassLeft
    /\ phase = "recovery" => rollback = "NotRequired"
    /\ phase = "recovery" /\ Done => outcome \in BeforeCutoverOutcomes
    /\ phase = "rollback" => outcome = "PartialCutover"
    /\ phase = "rollback" /\ ~Done => rollback = "NotRequired"
    /\ phase = "forward" /\ Done =>
         /\ rollback = "NotRequired"
         /\ outcome = "Succeeded" \/ (outcome \in BeforeCutoverOutcomes /\ ~mutated)

\* The backend: healthy before the stop, stopped while the database may be replaced.
BackendInv ==
    /\ phase = "forward" /\ pc \in BeforeStop => backend = "healthy"
    /\ phase = "forward" /\ pc \in (Gates \union AfterDrop) \ {"health"} => backend = "stopped"
    /\ phase = "forward" /\ pc = "health" => backend \in Running
    /\ phase = "recovery" /\ pc = "start" => backend = "stopped"
    /\ phase = "rollback" /\ pc \in Proved => backend = "stopped"
    /\ phase = "rollback" /\ pc = "health" => backend \in Running

\* The contents: what has just been loaded, and that the archive holds it while the
\* installed data is gone or about to be.
ContentInv ==
    /\ phase = "forward" /\ pc \in {"validate", "identity2", "start", "health"} => db = "legacy"
    /\ phase = "forward" /\ pc \in BeforeStop \union Unpublished => ~published
    /\ phase = "forward" /\ pc \in Archived \union AfterDrop => archive = "current"
    /\ ~orphaned =>
         /\ phase = "rollback" /\ pc \in Unproved /\ backend \in Running => db = "legacy"
         /\ phase = "rollback" /\ pc \in {"validate", "start", "health", "finalStop"} => db = "installed"
         /\ phase = "rollback" /\ pc \in Unproved \union Proved => archive = "current"
         /\ db # "installed" => archive = "current"

\* What a returned result says is true of the database and of the backend.
VerdictInv ==
    /\ BeforeCutoverMeansUntouched
    /\ SuccessMeansLegacyServed
    /\ RollbackVerdictIsTrue
    /\ UncancelledFailureServesAgain

IInv == TypeOK /\ PhaseInv /\ MutationInv /\ ResultInv /\ BackendInv /\ ContentInv /\ VerdictInv

\* Where a rollback can be while Compose does not list a stopped backend: it never gets past
\* its proof, so it reloads nothing and never succeeds.
RollbackStopsShort ==
    phase = "rollback" => pc \in Unproved \union {"done"} /\ rollback # "Succeeded"

-----------------------------------------------------------------------------
(* Refinement: the restore implements DatabaseCutover.                      *)

AbstractContent == IF db \in {"installed", "legacy"} THEN db ELSE "broken"

AbstractVerdict ==
    IF ~Done THEN "pending"
    ELSE IF outcome = "Succeeded" THEN "replaced"
    ELSE IF outcome \in BeforeCutoverOutcomes THEN "untouched"
    ELSE IF rollback = "Succeeded" THEN "restored"
    ELSE "partial"

Cutover == INSTANCE DatabaseCutover
           WITH content <- AbstractContent, archived <- published,
                touched <- mutated, loose <- orphaned, verdict <- AbstractVerdict

\* Every run of the coordinator is a run of DatabaseCutover: archive before touching, one
\* justified verdict, and no change after it unless a command outlived its client.
ImplementsCutover == Cutover!Spec

-----------------------------------------------------------------------------
(* What the change's specification says and the code does not do.           *)

\* spec.md:247: cancellation cleans incomplete staging artifacts.
CancellationCleansStaging ==
    Done /\ outcome = "CancelledBeforeCutover" => ~staging

\* spec.md:229: a rollback that cannot complete leaves the backend stopped.
FailedRollbackLeavesBackendStopped ==
    Done /\ rollback \in {"Failed", "Cancelled"} => backend = "stopped"

\* tasks.md:109: a stop failure restarts the backend when the target is unchanged.
StopFailureRestartsBackend ==
    Done /\ outcome = "FailedBeforeCutover" /\ code = "restore-backend-stop"
        => backend \in Running

\* spec.md:255: recovery after a cancellation counts as complete only once the backend
\* is verified, so a cancelled run whose recovery failed says so.
CancelledRunReportsFailedRecovery ==
    Done /\ outcome = "CancelledBeforeCutover" /\ stage # "BackendStop"
         /\ code # "restore-backend-recovery"
        => backend \in Running

\* design.md:519 "starts backend once and requires normal backend health": with no
\* collaborator failing and no context ending, a backend that has not reached its first
\* healthcheck yet is not a failed restore.
HealthProbeWaits ==
    Done /\ ~fault /\ ~cancelled /\ ~expired => stage # "BackendHealth"

\* design.md:24 "automatically restore the validated target backup through the same
\* replacement engine": a rollback gives up on its proof only if something failed.
StoppedBackendIsProved ==
    Done /\ code = "restore-rollback-stop" => fault \/ expired

\* proposal.md:60 "cleaned on every exit path": a success leaves no credential directory.
SuccessLeavesNoCredential == Done /\ outcome = "Succeeded" => pgpassLeft = {}

\* spec.md:247: the backend is kept stopped whenever the target may change, also when a
\* killed client leaves its container running.
QuietCutoverWhateverRuns ==
    [][db' # db => backend = "stopped" /\ backend' = "stopped"]_vars
=============================================================================
