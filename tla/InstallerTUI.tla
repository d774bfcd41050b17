----------------------------- MODULE InstallerTUI -----------------------------
(***************************************************************************)
(* The root Bubble Tea model of internal/tui: the screen machine that      *)
(* takes an operator from the splash screen to an installed, updated or    *)
(* migrated system.  Update handles one message at a time, but every       *)
(* command it returns runs in a goroutine of its own, so results arrive in *)
(* any order, on any screen, and possibly long after the screen that asked *)
(* for them was left.  `inflight' counts the commands and messages that    *)
(* Update has not been given yet.                                          *)
(*                                                                         *)
(* During a migration the model also holds the lease of the pre-install    *)
(* handoff (module MigrationHandoff): legacy services are stopped while it *)
(* is live, and completing it as a failure starts them again.              *)
(*                                                                         *)
(* Rendering, spinners, progress lines and the run log are left out.  The  *)
(* keys that only cancel a running context (on the backup, quiescence and  *)
(* restore screens) change nothing here: every such command may fail at    *)
(* any time anyway.                                                        *)
(***************************************************************************)
EXTENDS Naturals, FiniteSets

CONSTANTS Fixes,        \* the bootstrap actions a preflight report can call for
          MaxHasty,     \* keys pressed while something is still outstanding
          MaxPolls      \* health polls before the verify screen times out

ASSUME FixesAssumption == IsFiniteSet(Fixes)
ASSUME BoundsAssumption == MaxHasty \in Nat /\ MaxPolls \in Nat \ {0}

VARIABLES screen,     \* m.state
          inflight,   \* how many of each command or message are still to be handled
          capable,    \* hasMigrationCapability(m.deps)
          prompt,     \* messages sent at once are handled before anything else
          faults,     \* what this host may lack, of the things that have a fix
          hasty,      \* keys pressed while something was outstanding
          again,      \* the splash screen was confirmed a second time (history)
          menu,       \* the detection the context menu was built from
          docker,     \* m.pendingDockerAction
          lease,      \* m.hasLiveMigrationLease()
          handoff,    \* the handoff's lease: none, live, or who consumed it
          auth,       \* m.migrationRecoveryAuthPending and m.quiescenceAuthPending
          restored,   \* a database restore of this session succeeded
          code,       \* m.migrationRecoveryCode
          exempt,     \* legacy ports are exempt from the port checks
          report,     \* m.preflight.report
          boot,       \* m.bootstrap
          attempted,  \* m.attemptedActions
          ran,        \* the actions that completed bootstraps have run (history)
          resolving,  \* m.portscan.resolving
          asterisk,   \* the optional package Asterisk was chosen
          polls,      \* m.verify.elapsed, in polls
          outcome,    \* what the result screen reports
          interrupted,\* the operator asked to quit while a lease was live
          over        \* the program has quit

sessionVars == <<capable, prompt, faults, menu, docker, resolving, asterisk>>
leaseVars == <<lease, handoff, auth, restored, code, exempt, interrupted>>
checkVars == <<report, boot, attempted, ran>>
endVars == <<outcome, over>>
vars == <<screen, inflight, hasty, again, sessionVars, leaseVars, checkVars, endVars, polls>>

\* Commands that end by themselves, named for what they run.
Commands == {"detect", "authenticate", "update", "migrationAuth", "backupPreflight",
    "backup", "refresh", "validate", "begin", "completeFailure", "completeSuccess",
    "preflight", "fix", "portScan", "envWrite", "asterisk", "pull", "up", "restore"}

\* Messages that a command returns as soon as it is run.
Immediate == {"DetectionStarted", "InstallSelected", "UpdateSelected",
    "UninstallSelected", "MigrationSelected", "EnvironmentSelected", "DispositionStop",
    "DispositionRemove", "OperationDismissed", "BootstrapComplete", "BootstrapSkipped",
    "PreflightPassed", "WorkspaceEntered", "PackagesConfirmed", "PortsConfirmed",
    "PullStarted", "DeployStarted", "InstallSuccess", "InstallFailure"}

\* The health timer, and results whose effect on the handoff or the database
\* came before they are handled.
Results == {"HealthTick", "LeaseGranted", "LeaseAfterFailure", "QuiescenceFailed",
    "RecoveryVerified", "RecoveryUnproven", "SuccessCompleted", "RestoreSucceeded",
    "RestoreFailed"}

Messages == Commands \union Immediate \union Results

\* Screens that wait for a command, and the commands or messages that leave them.
Awaits == [
    Detecting |-> {"detect"}, DockerAuth |-> {"authenticate"}, Updating |-> {"update"},
    MigrationAuth |-> {"migrationAuth"}, BackupPreflight |-> {"backupPreflight"},
    BackupRunning |-> {"backup"}, MigrationAuthCheck |-> {"validate"},
    MigrationAuthRefresh |-> {"refresh"},
    MigrationQuiescence |->
        {"begin", "LeaseGranted", "LeaseAfterFailure", "QuiescenceFailed"},
    DatabaseRestore |-> {"restore", "RestoreSucceeded", "RestoreFailed"},
    MigrationRecovery |-> {"completeFailure", "RecoveryVerified", "RecoveryUnproven"},
    MigrationSuccess |-> {"completeSuccess", "SuccessCompleted"},
    EnvWrite |-> {"envWrite", "InstallFailure"},
    AsteriskSetup |-> {"asterisk", "PullStarted", "InstallFailure"},
    Pull |-> {"pull", "DeployStarted", "InstallFailure"},
    Deploy |-> {"up", "HealthTick", "InstallFailure"},
    Verify |-> {"HealthTick", "InstallSuccess", "InstallFailure"}]

Screens == DOMAIN Awaits \union {"Splash", "ContextMenu", "BlockedOperation",
    "ActionResult", "DockerAuthFailed", "MigrationEnv", "MigrationAuthFailed",
    "BackupConfirm", "BackupResult", "MigrationConfirm", "MigrationCancelled",
    "MigrationDisposition", "MigrationRemoveConfirm", "MigrationResult", "Preflight",
    "Bootstrap", "WorkspaceInput", "OptionalPackages", "PortScan", "Result"}

\* The actions the context menu offers for what was detected.
Offers == [none |-> {}, NotInstalled |-> {"InstallSelected"},
    Current |-> {"UpdateSelected", "UninstallSelected"},
    LegacyPM2 |-> {"MigrationSelected"}, Unknown |-> {}]

\* One type invariant for the root model's state.
TypeOK ==
    /\ screen \in Screens
    /\ inflight \in [Messages -> Nat]
    /\ hasty \in 0..MaxHasty /\ faults \in SUBSET Fixes
    /\ menu \in DOMAIN Offers
    /\ docker \in {"none", "InstallSelected", "UpdateSelected"}
    /\ handoff \in {"none", "live", "released", "recovered"}
    /\ auth \in [recovery : BOOLEAN, quiescence : BOOLEAN]
    /\ code \in {"none", "verified", "unproven", "refused"}
    /\ report \in {"none", "clear", "blocked"}
    /\ boot \in [mode : {"idle", "confirming", "executing"},
                 all : SUBSET Fixes, left : SUBSET Fixes]
    /\ attempted \in SUBSET Fixes /\ ran \in SUBSET Fixes
    /\ polls \in 0..MaxPolls
    /\ outcome \in {"none", "installed", "failed"}
    /\ {capable, prompt, again, lease, restored, exempt, resolving, asterisk, interrupted, over}
           \subseteq BOOLEAN

Init ==
    /\ screen = "Splash"
    /\ inflight = [k \in Messages |-> 0]
    /\ hasty = 0 /\ again = FALSE
    /\ capable \in BOOLEAN /\ prompt \in BOOLEAN /\ faults \in SUBSET Fixes
    /\ menu = "none" /\ docker = "none" /\ resolving = FALSE /\ asterisk = FALSE
    /\ lease = FALSE /\ handoff = "none" /\ restored = FALSE /\ code = "none"
    /\ auth = [recovery |-> FALSE, quiescence |-> FALSE]
    /\ exempt = FALSE /\ interrupted = FALSE
    /\ report = "none" /\ attempted = {} /\ ran = {}
    /\ boot = [mode |-> "idle", all |-> {}, left |-> {}]
    /\ polls = 0 /\ outcome = "none" /\ over = FALSE

-----------------------------------------------------------------------------
(* The event loop: what a call of Update takes from and adds to inflight.  *)

One(condition) == IF condition THEN 1 ELSE 0

\* A message sent at once still waits, and is to be handled first.
Overtaken == prompt /\ \E k \in Immediate : inflight[k] > 0

\* Update is given m and returns the commands in `issued'.
Handle(m, issued) ==
    /\ ~over
    /\ inflight[m] > 0
    /\ Overtaken => m \in Immediate
    /\ inflight' = [k \in Messages |->
                       (inflight[k] - One(k = m)) + One(k \in issued)]
    /\ UNCHANGED <<hasty, again>>

\* Update is given a key.  Bound: MaxHasty keys in a session are pressed while
\* some command or message is still outstanding.
Press(issued) ==
    LET waiting == \E k \in Messages : inflight[k] > 0
    IN /\ ~over /\ ~Overtaken
       /\ waiting => hasty < MaxHasty
       /\ hasty' = hasty + One(waiting)
       /\ again' = (again \/ ("DetectionStarted" \in issued /\ inflight["DetectionStarted"] > 0))
       /\ inflight' = [k \in Messages |-> inflight[k] + One(k \in issued)]

\* A message or key that only changes the screen.
Moves(step, s) ==
    /\ step
    /\ screen' = s
    /\ UNCHANGED <<sessionVars, leaseVars, checkVars, endVars, polls>>

-----------------------------------------------------------------------------
(* The lease: recovery and completion (migration_quiescence.go).           *)

\* beginMigrationRecovery with a live lease: the call of Update is `step'.
BeginMigrationRecovery(step) ==
    /\ step
    /\ screen' = "MigrationAuthRefresh"
    /\ auth' = [auth EXCEPT !.recovery = TRUE]
    /\ UNCHANGED <<sessionVars, lease, handoff, restored, code, exempt, checkVars,
                   endVars, polls>>   \* the caller says whether interrupted changes

\* beginAuthorizedMigrationRecovery: without a lease there is only a result.
RecoveryScreen == IF lease THEN "MigrationRecovery" ELSE "MigrationResult"
\* Mutant: the recovery screen is shown and no recovery is started.
MutRecoveryCommand == {}

RecoveryCommand == IF lease THEN {"completeFailure"} ELSE {}

\* The goroutine of the quiescence command: handoff.Begin.
RunBegin ==
    /\ \/ Handle("begin", {"QuiescenceFailed"}) /\ UNCHANGED handoff
       \/ \E granted \in {"LeaseGranted", "LeaseAfterFailure"} :
              Handle("begin", {granted}) /\ handoff' = "live"
    /\ UNCHANGED <<screen, sessionVars, lease, auth, restored, code, exempt, interrupted,
                   checkVars, endVars, polls>>

\* handoff.CompleteFailure: the first completion of a lease recovers; a
\* later one finds it consumed and returns an empty recovery, which
\* boundedRecoveryCode calls unproven.
RunCompleteFailure ==
    /\ IF handoff = "live"
          THEN /\ \E verdict \in {"RecoveryVerified", "RecoveryUnproven"} :
                      Handle("completeFailure", {verdict})
               /\ handoff' = "recovered"
          ELSE Handle("completeFailure", {"RecoveryUnproven"}) /\ UNCHANGED handoff
    /\ UNCHANGED <<screen, sessionVars, lease, auth, restored, code, exempt, interrupted,
                   checkVars, endVars, polls>>

\* handoff.CompleteSuccess: no error when the lease was consumed before.
RunCompleteSuccess ==
    /\ Handle("completeSuccess", {"SuccessCompleted"})
    /\ handoff' = IF handoff = "live" THEN "released" ELSE handoff
    /\ UNCHANGED <<screen, sessionVars, lease, auth, restored, code, exempt, interrupted,
                   checkVars, endVars, polls>>

\* LegacyRestoreAction.Run (module RestoreCoordinator).
RunRestore ==
    /\ \/ Handle("restore", {"RestoreSucceeded"}) /\ restored' = TRUE
       \/ Handle("restore", {"RestoreFailed"}) /\ UNCHANGED restored
    /\ UNCHANGED <<screen, sessionVars, lease, handoff, auth, code, exempt, interrupted,
                   checkVars, endVars, polls>>

\* MigrationQuiescenceCompletedMsg.
QuiescenceCompleted ==
    \/ /\ screen = "MigrationQuiescence"
       /\ Handle("LeaseGranted", {"preflight"})
       /\ lease' = TRUE /\ exempt' = TRUE
       /\ screen' = "Preflight"
       /\ UNCHANGED <<sessionVars, handoff, auth, restored, code, interrupted, checkVars,
                      endVars, polls>>
    \/ /\ screen = "MigrationQuiescence"
       /\ Handle("LeaseAfterFailure", {"refresh"})
       /\ lease' = TRUE
       /\ screen' = "MigrationAuthRefresh"
       /\ auth' = [auth EXCEPT !.recovery = TRUE]
       /\ UNCHANGED <<sessionVars, handoff, restored, code, exempt, interrupted, checkVars,
                      endVars, polls>>
    \/ /\ screen = "MigrationQuiescence"
       /\ Handle("QuiescenceFailed", {})
       /\ screen' = "MigrationResult" /\ code' = "refused"
       /\ UNCHANGED <<sessionVars, lease, handoff, auth, restored, exempt, interrupted,
                      checkVars, endVars, polls>>

\* MigrationRecoveryCompletedMsg.
RecoveryCompleted ==
    \E m \in {"RecoveryVerified", "RecoveryUnproven"} :
        /\ screen = "MigrationRecovery"
        /\ Handle(m, {})
        /\ lease' = FALSE /\ exempt' = FALSE
        /\ code' = IF m = "RecoveryVerified" THEN "verified" ELSE "unproven"
        /\ screen' = "MigrationResult"
        /\ UNCHANGED <<sessionVars, handoff, auth, restored, interrupted, checkVars,
                       endVars, polls>>

\* MigrationSuccessCompletedMsg.
SuccessCompleted ==
    /\ screen = "MigrationSuccess"
    /\ Handle("SuccessCompleted", {})
    /\ lease' = FALSE /\ exempt' = FALSE
    /\ screen' = "Result" /\ outcome' = "installed"
    /\ UNCHANGED <<sessionVars, handoff, auth, restored, code, interrupted, checkVars,
                   over, polls>>

\* MigrationAuthorizationCheckedMsg; without error Update(DeployStartedMsg).
AuthorizationChecked ==
    /\ screen = "MigrationAuthCheck"
    /\ \/ Moves(Handle("validate", {"up"}), "Deploy")
       \/ Moves(Handle("validate", {"refresh"}), "MigrationAuthRefresh")

\* MigrationAuthorizationRefreshCompletedMsg: one result, three requesters.
AuthorizationRefreshed ==
    \/ /\ screen = "MigrationAuthRefresh" /\ auth.recovery
       /\ Handle("refresh", RecoveryCommand)
       /\ screen' = RecoveryScreen
       /\ auth' = [auth EXCEPT !.recovery = FALSE]
       /\ UNCHANGED <<sessionVars, lease, handoff, restored, code, exempt, interrupted,
                      checkVars, endVars, polls>>
    \/ /\ screen = "MigrationAuthRefresh" /\ ~auth.recovery /\ auth.quiescence
       /\ \/ /\ Handle("refresh", {"begin"})
             /\ screen' = "MigrationQuiescence" /\ UNCHANGED code
          \/ /\ Handle("refresh", {})
             /\ screen' = "MigrationResult" /\ code' = "refused"
       /\ auth' = [auth EXCEPT !.quiescence = FALSE]
       /\ UNCHANGED <<sessionVars, lease, handoff, restored, exempt, interrupted,
                      checkVars, endVars, polls>>
    \/ /\ screen = "MigrationAuthRefresh" /\ ~auth.recovery /\ ~auth.quiescence
       /\ \/ Moves(Handle("refresh", {"up"}), "Deploy")
          \/ Moves(Handle("refresh", RecoveryCommand), RecoveryScreen)

-----------------------------------------------------------------------------
(* The way to the lease: detection, menu, authentication and backup.       *)

DetectionStarted == Moves(Handle("DetectionStarted", {"detect"}), "Detecting")

\* DetectionCompletedMsg is handled on every screen.
DetectionCompleted ==
    /\ Handle("detect", {})
    /\ screen' = "ContextMenu"
    /\ menu' \in DOMAIN Offers \ {"none"}
    /\ UNCHANGED <<capable, prompt, faults, docker, resolving, asterisk, leaseVars,
                   checkVars, endVars, polls>>

\* ContextActionSelectedMsg.
ContextActionSelected(action) ==
    /\ screen = "ContextMenu" /\ action \in Offers[menu]
    /\ \/ /\ action \in {"InstallSelected", "UpdateSelected"}
          /\ Handle(action, {"authenticate"})
          /\ screen' = "DockerAuth" /\ docker' = action
          /\ UNCHANGED <<capable, prompt, faults, menu, resolving, asterisk, leaseVars,
                         checkVars, endVars, polls>>
       \/ /\ action = "UninstallSelected" \/ (action = "MigrationSelected" /\ ~capable)
          /\ Moves(Handle(action, {}), "BlockedOperation")
       \/ /\ action = "MigrationSelected" /\ capable
          /\ Moves(Handle(action, {}), "MigrationEnv")

OperationDismissed == Moves(Handle("OperationDismissed", {}), "ContextMenu")

\* DockerAuthenticationCompletedMsg.
DockerAuthenticated ==
    /\ screen = "DockerAuth"
    /\ \/ Moves(Handle("authenticate", {}), "DockerAuthFailed")
       \/ /\ docker = "InstallSelected"
          /\ Moves(Handle("authenticate", {"preflight"}), "Preflight")
       \/ /\ docker = "UpdateSelected"
          /\ Moves(Handle("authenticate", {"update"}), "Updating")

UpdateCompleted == Moves(Handle("update", {}), "ActionResult")

EnvironmentSelected ==
    /\ screen = "MigrationEnv"
    /\ Moves(Handle("EnvironmentSelected", {"migrationAuth"}), "MigrationAuth")

\* MigrationAuthenticationCompletedMsg.
MigrationAuthenticated ==
    /\ screen = "MigrationAuth"
    /\ \/ Moves(Handle("migrationAuth", {}), "MigrationAuthFailed")
       \/ Moves(Handle("migrationAuth", {"backupPreflight"}), "BackupPreflight")

BackupPreflightCompleted ==
    /\ screen = "BackupPreflight"
    /\ \E s \in {"BackupResult", "BackupConfirm"} : Moves(Handle("backupPreflight", {}), s)

\* BackupCompletedMsg; the capability check before keeps both actions non-nil.
BackupCompleted ==
    /\ screen = "BackupRunning"
    /\ \E s \in {"BackupResult", "MigrationConfirm"} : Moves(Handle("backup", {}), s)

\* authorizeMigrationQuiescence.
AuthorizeMigrationQuiescence(step) ==
    /\ step
    /\ screen' = "MigrationAuthRefresh"
    /\ auth' = [auth EXCEPT !.quiescence = TRUE]
    /\ UNCHANGED <<sessionVars, lease, handoff, restored, code, exempt, interrupted,
                   checkVars, endVars, polls>>

\* MigrationDispositionSelectedMsg.
DispositionSelected ==
    /\ screen = "MigrationDisposition"
    /\ \/ AuthorizeMigrationQuiescence(Handle("DispositionStop", {"refresh"}))
       \/ Moves(Handle("DispositionRemove", {}), "MigrationRemoveConfirm")

-----------------------------------------------------------------------------
(* The installation: preflight, bootstrap, configuration, pull, deploy.    *)

\* PreflightResultMsg, on any screen: fixes not attempted yet lead to the
\* bootstrap screen, anything else only updates the report.
PreflightResult ==
    \E fixable \in SUBSET faults, nonFixable \in BOOLEAN :
        LET fresh == fixable \ attempted
            offered == ~nonFixable /\ fresh # {}
        IN /\ Handle("preflight", {})
           /\ report' = IF nonFixable \/ fixable # {} THEN "blocked" ELSE "clear"
           /\ screen' = IF offered THEN "Bootstrap" ELSE screen
           /\ boot' = IF offered
                         THEN [mode |-> "confirming", all |-> fresh, left |-> fresh]
                         ELSE boot
           /\ UNCHANGED <<sessionVars, leaseVars, attempted, ran, endVars, polls>>

\* BootstrapActionResultMsg: a failure stops the list, the last success ends the
\* bootstrap.  (An action with a log-in-again banner would end it by quitting, but
\* ClassifyBlockers returns none that has one.)
FixCompleted ==
    \/ screen = "Bootstrap" /\ Moves(Handle("fix", {}), screen)
    \/ /\ screen = "Bootstrap"
       /\ LET left == boot.left \ {CHOOSE a \in boot.left : TRUE}
          IN /\ Handle("fix", IF left = {} THEN {"BootstrapComplete"} ELSE {"fix"})
             /\ boot' = [boot EXCEPT !.left = left]
             /\ ran' = IF left = {} THEN ran \union boot.all ELSE ran
       /\ UNCHANGED <<screen, sessionVars, leaseVars, report, attempted, endVars, polls>>

\* Mutant: what was attempted is not remembered.
MutBootstrapCompleted ==
    /\ Handle("BootstrapComplete", {"preflight"})
    /\ report' = "none"
    /\ screen' = "Preflight"
    /\ UNCHANGED <<sessionVars, leaseVars, boot, attempted, ran, endVars, polls>>

\* BootstrapCompleteMsg: remember what was attempted, run the checks again.
BootstrapCompleted ==
    /\ Handle("BootstrapComplete", {"preflight"})
    /\ attempted' = attempted \union boot.all
    /\ report' = "none"
    /\ screen' = "Preflight"
    /\ UNCHANGED <<sessionVars, leaseVars, boot, ran, endVars, polls>>

BootstrapSkipped == Moves(Handle("BootstrapSkipped", {}), "Preflight")

PreflightPassed == Moves(Handle("PreflightPassed", {}), "WorkspaceInput")

WorkspaceEntered == Moves(Handle("WorkspaceEntered", {}), "OptionalPackages")

PackagesConfirmed ==
    /\ Handle("PackagesConfirmed", {"portScan"})
    /\ screen' = "PortScan"
    /\ asterisk' \in BOOLEAN
    /\ UNCHANGED <<capable, prompt, faults, menu, docker, resolving, leaseVars, checkVars,
                   endVars, polls>>

\* PortScanResultMsg is delegated: only the port screen takes it.
PortsScanned ==
    \/ screen = "PortScan" /\ Moves(Handle("portScan", {"PortsConfirmed"}), screen)
    \/ /\ screen = "PortScan"
       /\ Handle("portScan", {})
       /\ resolving' = TRUE
       /\ UNCHANGED <<screen, capable, prompt, faults, menu, docker, asterisk, leaseVars,
                      checkVars, endVars, polls>>

PortsConfirmed == Moves(Handle("PortsConfirmed", {"envWrite"}), "EnvWrite")

EnvWritten ==
    \/ asterisk /\ Moves(Handle("envWrite", {"asterisk"}), "AsteriskSetup")
    \/ ~asterisk /\ Moves(Handle("envWrite", {"pull"}), "Pull")

AsteriskSetupCompleted == Moves(Handle("asterisk", {"PullStarted"}), screen)

PullStarted == Moves(Handle("PullStarted", {"pull"}), "Pull")

\* PullCompleteMsg: with a live lease, on any screen, authorization is
\* checked before the deployment.
PullCompleted ==
    \/ lease /\ Moves(Handle("pull", {"validate"}), "MigrationAuthCheck")
    \/ ~lease /\ screen = "Pull" /\ Moves(Handle("pull", {"DeployStarted"}), screen)

DeployStarted == Moves(Handle("DeployStarted", {"up"}), "Deploy")

\* Mutant: a migration is deployed like an installation.
MutDeployCompleted == screen = "Deploy" /\ Moves(Handle("up", {"HealthTick"}), screen)

\* DeployCompleteMsg: a migration restores the legacy database first.
DeployCompleted ==
    \/ screen = "Deploy" /\ lease /\ Moves(Handle("up", {"restore"}), "DatabaseRestore")
    \/ screen = "Deploy" /\ ~lease /\ Moves(Handle("up", {"HealthTick"}), screen)

\* RestoreCompletedMsg.
RestoreCompleted ==
    /\ screen = "DatabaseRestore"
    /\ \/ Moves(Handle("RestoreSucceeded", {"HealthTick"}), "Deploy")
       \/ /\ BeginMigrationRecovery(Handle("RestoreFailed", {"refresh"}))
          /\ UNCHANGED interrupted

\* Mutant: services that are not ready send the screen back, and the time starts over.
MutHealthTickRestarts ==
    \/ screen = "Deploy" /\ Moves(Handle("HealthTick", {"HealthTick"}), "Verify")
    \/ screen = "Verify" /\ Moves(Handle("HealthTick", {"InstallSuccess"}), screen)
    \/ screen = "Verify" /\ Moves(Handle("HealthTick", {"HealthTick"}), "Deploy")

\* HealthTickMsg: the first one moves from deploy to verify; there each one
\* polls until the services are ready, a poll fails or the time is up.
HealthTick ==
    \/ /\ screen = "Deploy"
       /\ Handle("HealthTick", {"HealthTick"})
       /\ screen' = "Verify" /\ polls' = 0
       /\ UNCHANGED <<sessionVars, leaseVars, checkVars, endVars>>
    \/ /\ screen = "Verify" /\ polls = MaxPolls
       /\ Moves(Handle("HealthTick", {"InstallFailure"}), screen)
    \/ /\ screen = "Verify" /\ polls < MaxPolls
       /\ \E answer \in {"InstallSuccess", "InstallFailure", "HealthTick"} :
              Handle("HealthTick", {answer})
       /\ polls' = polls + 1
       /\ UNCHANGED <<screen, sessionVars, leaseVars, checkVars, endVars>>

\* InstallSuccessMsg: with a live lease the migration is completed first.
InstallSucceeded ==
    \/ lease /\ Moves(Handle("InstallSuccess", {"completeSuccess"}), "MigrationSuccess")
    \/ /\ ~lease
       /\ Handle("InstallSuccess", {})
       /\ screen' = "Result" /\ outcome' = "installed"
       /\ UNCHANGED <<sessionVars, leaseVars, checkVars, over, polls>>

\* InstallFailureMsg, from whichever command returns it.
InstallFailed ==
    \E m \in {"envWrite", "asterisk", "pull", "up", "InstallFailure"} :
        \/ lease /\ BeginMigrationRecovery(Handle(m, {"refresh"})) /\ UNCHANGED interrupted
        \/ /\ ~lease
           /\ Handle(m, {})
           /\ screen' = "Result" /\ outcome' = "failed"
           /\ UNCHANGED <<sessionVars, leaseVars, checkVars, over, polls>>

\* The screens on which Update, or the screen it delegates to, takes a result;
\* every message that is not named here is handled on all screens.
TakenOn(m) ==
    CASE m \in {"LeaseGranted", "LeaseAfterFailure", "QuiescenceFailed"} ->
             {"MigrationQuiescence"}
      [] m \in {"RecoveryVerified", "RecoveryUnproven"} -> {"MigrationRecovery"}
      [] m \in {"RestoreSucceeded", "RestoreFailed"} -> {"DatabaseRestore"}
      [] m \in {"DispositionStop", "DispositionRemove"} -> {"MigrationDisposition"}
      [] m \in UNION {Offers[d] : d \in DOMAIN Offers} ->
             IF m \in Offers[menu] THEN {"ContextMenu"} ELSE {}
      [] m = "pull" -> IF lease THEN Screens ELSE {"Pull"}
      [] m = "HealthTick" -> {"Deploy", "Verify"}
      [] m = "SuccessCompleted" -> {"MigrationSuccess"}
      [] m = "authenticate" -> {"DockerAuth"}
      [] m = "EnvironmentSelected" -> {"MigrationEnv"}
      [] m = "migrationAuth" -> {"MigrationAuth"}
      [] m = "backupPreflight" -> {"BackupPreflight"}
      [] m = "backup" -> {"BackupRunning"}
      [] m = "validate" -> {"MigrationAuthCheck"}
      [] m = "refresh" -> {"MigrationAuthRefresh"}
      [] m = "fix" -> {"Bootstrap"}
      [] m = "portScan" -> {"PortScan"}
      [] m = "up" -> {"Deploy"}
      [] OTHER -> Screens

\* A result that comes on another screen is dropped.
Ignored ==
    \E m \in Messages :
        screen \notin TakenOn(m) /\ Moves(Handle(m, {}), screen)

-----------------------------------------------------------------------------
(* The operator's keys.                                                    *)

\* tea.Quit.
Quit ==
    /\ Press({})
    /\ over' = TRUE
    /\ UNCHANGED <<screen, sessionVars, leaseVars, checkVars, outcome, polls>>

\* Screens whose interrupt keys cancel the running context and nothing else.
Cancellable == {"BackupRunning", "MigrationQuiescence", "DatabaseRestore"}

\* Screens that Escape, or q, leaves for "migration cancelled".
Declined(key) == CASE key = "q" -> {"MigrationConfirm"}
                   [] key = "esc" -> {"MigrationConfirm", "MigrationDisposition",
                                      "MigrationRemoveConfirm"}
                   [] OTHER -> {}

\* Screens that a key leaves by quitting when no lease is live.
QuitScreens(key) == CASE key = "q" -> Screens \ {"WorkspaceInput"}
                      [] key = "esc" -> {"Detecting", "ContextMenu"}
                      [] OTHER -> Screens

\* Mutant: the live lease is looked at for Escape and q, not for Ctrl-C.
MutInterrupt(key) ==
    /\ screen \notin Cancellable
    /\ \/ screen \in Declined(key) /\ Moves(Press({}), "MigrationCancelled")
       \/ /\ screen \notin Declined(key) /\ lease /\ key # "ctrl+c"
          /\ BeginMigrationRecovery(Press({"refresh"}))
          /\ interrupted' = TRUE
       \/ screen \in QuitScreens(key) /\ (lease => key = "ctrl+c") /\ Quit

\* Ctrl-C, Escape and q, in the order in which Update tries the cases.
Interrupt(key) ==
    /\ screen \notin Cancellable
    /\ \/ screen \in Declined(key) /\ Moves(Press({}), "MigrationCancelled")
       \/ /\ screen \notin Declined(key) /\ lease
          /\ BeginMigrationRecovery(Press({"refresh"}))
          /\ interrupted' = TRUE
       \/ /\ screen \notin Declined(key) /\ ~lease
          /\ screen \in QuitScreens(key)
          /\ Quit
       \/ /\ key = "esc" /\ screen = "BlockedOperation"
          /\ Moves(Press({"OperationDismissed"}), screen)

\* What Enter sends on the screens that wait for the operator.
EnterSends == [
    Splash |-> {"DetectionStarted"},
    ContextMenu |-> Offers[menu],
    MigrationEnv |-> {"EnvironmentSelected"},
    MigrationDisposition |-> {"DispositionStop", "DispositionRemove"},
    Preflight |-> IF report = "clear" THEN {"PreflightPassed"} ELSE {},
    WorkspaceInput |-> {"WorkspaceEntered"},
    OptionalPackages |-> {"PackagesConfirmed"},
    PortScan |-> IF resolving THEN {"PortsConfirmed"} ELSE {}]

Enter ==
    \/ /\ screen \in DOMAIN EnterSends \ {"PortScan"}
       /\ \E m \in EnterSends[screen] : Moves(Press({m}), screen)
    \/ /\ screen = "PortScan"          \* the last conflict is resolved
       /\ \E m \in EnterSends[screen] : Press({m})
       /\ resolving' = FALSE
       /\ UNCHANGED <<screen, capable, prompt, faults, menu, docker, asterisk, leaseVars,
                      checkVars, endVars, polls>>
    \/ screen = "BackupConfirm" /\ Moves(Press({"backup"}), "BackupRunning")
    \/ screen = "MigrationConfirm" /\ Moves(Press({}), "MigrationDisposition")
    \/ /\ screen = "MigrationRemoveConfirm"
       /\ AuthorizeMigrationQuiescence(Press({"refresh"}))
    \/ screen = "Result" /\ Quit

\* The bootstrap screen: y or Enter runs the first action, n skips.
BootstrapKey ==
    /\ screen = "Bootstrap"
    /\ \/ /\ boot.mode = "confirming"
          /\ Press({"fix"})
          /\ boot' = [boot EXCEPT !.mode = "executing"]
          /\ UNCHANGED <<screen, sessionVars, leaseVars, report, attempted, ran, endVars, polls>>
       \/ boot.mode = "confirming" /\ Moves(Press({"BootstrapSkipped"}), screen)

\* Ctrl-R on the port screen scans again; r on the verify screen polls now.
RefreshKey ==
    \/ screen = "PortScan" /\ Moves(Press({"portScan"}), screen)
    \/ screen = "Verify" /\ Moves(Press({"HealthTick"}), screen)

Keys == \/ \E key \in {"ctrl+c", "esc", "q"} : Interrupt(key)
        \/ Enter \/ BootstrapKey \/ RefreshKey

\* The goroutines of the commands that act on the handoff and the database.
Run == RunBegin \/ RunCompleteFailure \/ RunCompleteSuccess \/ RunRestore

\* Update's handlers.
Receive ==
    \/ DetectionStarted \/ DetectionCompleted
    \/ \E action \in UNION {Offers[d] : d \in DOMAIN Offers} : ContextActionSelected(action)
    \/ OperationDismissed \/ DockerAuthenticated \/ UpdateCompleted
    \/ EnvironmentSelected \/ MigrationAuthenticated \/ BackupPreflightCompleted
    \/ BackupCompleted \/ DispositionSelected \/ QuiescenceCompleted
    \/ AuthorizationChecked \/ AuthorizationRefreshed \/ RecoveryCompleted
    \/ SuccessCompleted \/ PreflightResult \/ FixCompleted \/ BootstrapCompleted
    \/ BootstrapSkipped \/ PreflightPassed \/ WorkspaceEntered \/ PackagesConfirmed
    \/ PortsScanned \/ PortsConfirmed \/ EnvWritten \/ AsteriskSetupCompleted
    \/ PullStarted \/ PullCompleted \/ DeployStarted \/ DeployCompleted
    \/ RestoreCompleted \/ HealthTick \/ InstallSucceeded \/ InstallFailed \/ Ignored

\* The program has quit.
Ended == over /\ UNCHANGED vars

Next == Keys \/ Run \/ Receive \/ Ended

\* Commands end and their messages are handled; the operator may do nothing.
Fairness == WF_vars(Run \/ Receive)

Spec == Init /\ [][Next]_vars /\ Fairness

-----------------------------------------------------------------------------
(* Properties.                                                             *)

\* A screen that waits for a command is never left without one.  Results that
\* come too late are dropped (TakenOn) and screens are overtaken by others, so
\* a screen could wait for an answer that was already thrown away: it never does.
NoScreenIsStuck ==
    ~over /\ screen \in DOMAIN Awaits => \E k \in Awaits[screen] : inflight[k] > 0

\* The handoff's lease is completed as a success, which leaves the legacy
\* services stopped for good, only after a database restore of this session
\* succeeded: stale health ticks do not carry a migration past its restore.
\* A session with a second detection (again) is excepted: its result is handled
\* on any screen (388), so it can send a session back to the menu in the middle of
\* an installation, whose health ticks then reach the migration chosen there.
SuccessNeedsRestore == handoff = "released" /\ ~again => restored

\* No bootstrap action runs again after a bootstrap that ran it, even when the
\* preflight checks that follow still ask for it (m.attemptedActions): the
\* installer does not ask for the same privileged fix for ever.
FixesNotRepeated == prompt /\ inflight["fix"] > 0 => boot.left \intersect ran = {}

\* The lease is not lost track of: the legacy ports are exempt from the port checks only
\* while it is live, so that an installation that goes on after the recovery checks them
\* again; and the program ends only when no handoff lease is live: Ctrl-C, Escape and q
\* with a live lease lead to its recovery (Update's key handling), and no quit overtakes a
\* quiescence that is still running or a result of it that is dropped.  A session
\* with a second detection (again) is excepted: its result shows the menu in the middle
\* of a quiescence, whose lease is then dropped, and the menu can be quit.
LeaseAccountedFor == (exempt => lease) /\ (over /\ ~again => handoff # "live")

\* What MigrationHandoff and MigrationLease take for granted of their caller: Begin runs
\* only where there is and was no lease, completions come on a lease that Begin returned,
\* and one that it returned together with an error, which grants no port, is never
\* completed as a success.  Again with one detection.
HandoffUsedAsGranted ==
    ~again =>
        /\ inflight["begin"] > 0 => handoff = "none"
        /\ lease \/ inflight["completeFailure"] > 0 \/ inflight["completeSuccess"] > 0 =>
               handoff # "none"
        /\ inflight["completeSuccess"] > 0 /\ handoff = "live" => exempt

\* Whatever the installer is waiting for, it gives the operator a screen to
\* act on again, or ends; in particular the health polling ends.
WorkEnds == prompt => []<>(screen \notin DOMAIN Awaits \/ over)

-----------------------------------------------------------------------------
(* What design.md says of the lease and the code does not keep.            *)

\* "A quit request with a live lease becomes cancellation-and-recovery"
\* (design.md:549): after one, no database restore is started.
QuitAbandonsMigration == ~(interrupted /\ inflight["restore"] > 0)

\* "Only `InstallSuccessMsg` is final migration success; it consumes the lease
\* without recovery and leaves legacy PM2 stopped" (design.md:548): no success
\* is reported after the legacy services were quiesced and started again.
SuccessLeavesLegacyStopped ==
    outcome = "installed" /\ handoff # "none" => handoff = "released"

\* Recovery runs, "then" the TUI must "render a migration-specific terminal
\* result" (design.md:546): the verdict of a verified recovery is shown.
RecoveryVerdictShown ==
    [][inflight'["RecoveryVerified"] < inflight["RecoveryVerified"]
          => code' = "verified"]_vars
=============================================================================
