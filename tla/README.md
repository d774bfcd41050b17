# alice-installer: TLA+ models, checks and proofs

alice-installer sets up the Alice Guardian Docker Compose stack on one host. It
can also migrate a legacy deployment (PM2 services and a PostgreSQL 11
container) to that stack. This directory models the parts of it that change
something on the host and the decisions these rest on, checks them with TLC on
small instances, and proves most of their safety properties for every value of the
constants with TLAPS.

## 1. The system

| Part | State it keeps | Operations | Interacts with |
|---|---|---|---|
| Root model and screens (`internal/tui`) | the screen, the commands in flight, the lease, port exemptions | one handler per message, keys | starts everything below as commands in goroutines of their own; gets their results as messages |
| Legacy backup (`internal/migration/backup_action.go`, `destination_store.go`, `manifest.go`, `process.go`) | a destination directory: lock, staged dump, staged manifest, published pairs; a credential file and a helper container | `RunWithProgress` | docker; other installer processes through the directory |
| PM2 quiescence (`internal/installation/pm2_quiescence.go`) | which services were captured and which stops were acknowledged | `Quiesce`, `Recover` | PM2, `ss`, `/proc`, which change under it |
| Migration handoff (`internal/migration/handoff.go`, `disposition.go`) | a lease: what was stopped, and whether it is consumed | `Begin`, `CompleteSuccess`, `CompleteFailure` | quiescence, the legacy container; called from concurrent TUI commands |
| Legacy-database restore (`internal/migration/restore*.go`) | the target database, the backend service, the target backup, the result under construction | `RestoreCoordinator.Run` with its recovery and its rollback | docker compose, PostgreSQL through helper containers |
| Unattended install, update, restart (`internal/headless`, `update`, `restart`) | `.env`, compose files, containers, the database volume | three commands | preflight, bootstrap, docker compose |
| Preflight and bootstrap (`internal/preflight`, `bootstrap`) | none of their own: they look at and repair the host | `Coordinator.Run`, `ClassifyBlockers`, the fixes | used by the TUI and the unattended install |
| Asterisk set-up (`internal/asterisk`) | package, service, two configuration files, a resource bundle, a snapshot in memory | `Install` and its rollback | apt, dnf, systemd, the AMI port |
| Compose runner, environment file, ports, artifacts | none | thin operations | modelled by their effects in the modules that call them |
| Streaming of docker compose output (`platform/command.go`, `compose/runner.go`) | two pipes, a bounded channel of progress lines | `Stream`, `Pull`, `Up` | drained by a TUI screen, a goroutine of the unattended install, or the loop of update |
| Detection of an installation (`internal/installation/detection.go` and the probes) | none | `Detect`: two probes and a classification | reads what earlier commands, or a legacy deployment, left; decides the TUI's menu |
| Legacy container selection (`internal/migration/container_selector.go`, `container_inspector.go`) | none | list, inspect, correlate | docker, whose containers change meanwhile; its choice becomes the backup plan |
| Legacy configuration parser (`internal/migration/config*.go`) | none | `Resolve` | reads the backend's `config.js` and its variables without running it |
| Run log and command line (`internal/runlog`, `cmd/installer/main.go`) | one file per run in a shared directory | `Open` with its retention, `Log`, the route to an exit code | other installer processes through the directory |

What is hard in it:

* **Concurrency.** Every Bubble Tea command runs in its own goroutine; its
  result arrives on whatever screen is shown then. Two installers can share a
  backup directory and always share the directory of logs. PM2 respawns processes
  between an observation and the stop that relies on it; containers come and go
  between their inspection and the dump. A command blocks while nobody takes its
  progress lines.
* **Failure with an unknown effect.** A docker command that fails, times out or
  is cancelled may have been carried out; killing the docker client does not end
  the container.
* **Cancellation and recovery under separate contexts.** Recovery must run, and
  end, after the operation's own context has ended.
* **Crashes.** Published pairs, `.env`, compose files and Asterisk's files are
  each written in several steps.
* **Reported outcomes.** The restore, the handoff and the installer each report
  a verdict an operator acts on. The central question is always whether the
  verdict is true.

`PROJECT.json` lists each hazard at its line with the properties aimed at it.

## 2. The modules

| Module | Models |
|---|---|
| `RestoreCoordinator` | one run of the restore: the call in flight (`pc`), the phase it belongs to, both contexts, the result, the target database, backend, archive, staged files |
| `DatabaseCutover` | the abstract promise of a restore: touch only what is archived, conclude once and truthfully; what a command let loose may still do is explicit |
| `PM2Quiescence` | the quiescer over services that stop, start and bind in steps of their own |
| `MigrationHandoff` | the coordinator and the lease; extends `PM2Quiescence`, whose `Quiesce` and `Recover` it calls |
| `MigrationLease` | the abstract promise of the handoff: what a lease, a refusal and a verified recovery stand for, and that a lease is consumed once |
| `BackupAction` | any number of backup operations sharing one destination |
| `InstallerTUI` | the root model: a bag of commands and messages in flight, and one action per message and key |
| `HeadlessInstall` | install, update and restart, one after the other, on one host |
| `InstallationDetection` | the probes and the classification of a host; extended by `HeadlessInstall`, which applies them to every host its commands leave |
| `AsteriskInstaller` | the set-up and its rollback on a host that may have an Asterisk already |
| `ComposeStream` | one docker compose command with its pipes, scanners, channel and each of three consumers |
| `RunLog` | processes from their arguments to their exit codes, and their logs |
| `ConfigParser` | the parser and the resolver of the legacy `config.js`, over tokens |
| `NodeConfig` | the reference for it: the scripts that are admitted, by the nesting of their brackets, and what Node evaluates each setting to |
| `ContainerDiscovery` | list, inspect and select a container for a configuration, and dump from the configured address |
| `LegacyDiscovery` | the backup's preflight: resolves `config.js` (`ConfigParser`) and goes on with `ContainerDiscovery`, which it extends |
| `MC*` | constants for TLC |
| `*Proofs` | the theorems about the module of that name, and their proofs: `RestoreCoordinatorProofs` (with the refinement of `DatabaseCutover`), `MigrationHandoffProofs` (with `PM2Quiescence` and the refinement of `MigrationLease`), `BackupActionProofs` (with `ContainerDiscovery`), `InstallerTUIProofs`, `HeadlessInstallProofs` (with `InstallationDetection`), `AsteriskInstallerProofs`, `ComposeStreamProofs`, `RunLogProofs` |

`PROJECT.json` maps each definition to its lines. Conventions they share:

* A program counter names the **next** call; an action is that call with
  everything the code does until the next one, including its error path.
* Every external call may fail. Where the code cannot know whether a failed
  command took effect, both are possible.
* A cancellation is an action of the caller that may come at any time; each step
  looks at the context where the code does.
* Alternatives that overlap are an IF chain, in the order of the code's early
  returns; CASE is kept for cases that exclude each other, since its value is any
  of the arms that apply.
* Definitions that begin with `Mut` are not part of the model. Each is a
  plausible mistake in the definition that follows it, used to check that the
  property in question notices it.

### Correspondence, module by module

**RestoreCoordinator.** `Run` is the sequence gate, wait, identity, stop,
credentials, legacy revalidation, reachability, dump, staging check, archive
check, publication, then `Replace` (terminate, drop, create, load, validate),
identity, start and health. `recoverBeforeCutover` shares start and health with
it, `rollback` shares reachability, `Replace`, start and health; hence `phase`.
`DestinationTrailingSlash` is how the backup root is written. With `FALSE` the
module is the coordinator over a cleaned root, as its tests use it; production
passes `/opt/alice/backups/`, and the run `restore_slash` shows what follows.
`PsListsStopped` is whether `docker compose ps` lists a service that has stopped. The
program calls it without `--all`, so its value is `FALSE`: the rollback takes a backend
that is not listed for one that has not been proved stopped, and **in production no
rollback gets past that proof** (`RollbackStopsShort`, proved in
`UnlistedBackendStopsRollback`; section 3, `StoppedBackendIsProved`). The run `restore`
has `TRUE`, the Compose of the repository's fakes, for the sake of what comes after the
proof: apart from the history variable `fault`, each behaviour with `FALSE` is one with `TRUE` in
which the proof fails, so the safety properties of the run, none of which reads `fault`,
hold with `FALSE` too; the theorems cover both values.
The credential directories of the probe, of the dump and of the replacement are told apart
in `pgpassLeft`: a failed removal is an error only of the last, and nobody looks at the
other two.
A database command that fails took effect, did not, or goes on in its container
without its client (`orphans`) and lands at some later time; `orphaned` records
that this has happened. The contents of the database are `installed`, `absent`, `empty`,
`partial` or `legacy`; the archive is `current` as long as the backend has written
nothing since.

**PM2Quiescence, MigrationHandoff.** A service is a PM2 id with one port. Its
incarnations are numbered. `Observed`, `Alive` and `Foreign` are what `pm2
jlist`, `/proc` and `ss` say; a snapshot is two reads with the world moving
between them. Others may act at any time, up to `MaxDisturbances`: PM2 respawns a
service, an operator stops one, a foreign program takes a port; `disturbed` counts
these. Completions may be issued any number of times, up to
`MaxCompletions`, by concurrent commands; the mutex and `consumed` decide.
`LegacyState` and `LeaseState` map this to `MigrationLease`: the deployment is quiet,
serving or in between, and the lease is what the calls have returned so far. The
module assumes of its caller that `Begin` is called once and completed only on a lease it
returned; `HandoffUsedAsGranted` of `InstallerTUI` states that this is so.

**BackupAction.** Files remember who created them, which the code cannot see.
Staging names are random, hence one per operation; lock and published names are
shared. Two operations may dump the same bytes and so aim at the same names. Two
containers run for an operation, the dump's (`helper`) and the archive validation's
(`validator`). Each may outlive its client, and its removal by name may fail; both end by
themselves at some time (`HelperExits`). The password file may stay when its preparation
fails half-way, when the dump is not started, and when its removal fails.

**InstallerTUI.** `inflight` counts what `Update` has not been given yet. `Run*`
actions are commands that execute code with an effect on the lease; `Receive` is
the delivery of one message, handled on any screen exactly as the switch of
`Update` does. `MaxHasty` bounds the keys pressed while something is still
outstanding. Each behaviour has one of two schedulers, `prompt`: a message that a
handler sends at once (`func() tea.Msg { return ... }`) is handled before anything
slower, or there are no assumptions on order. What a detection answers is
arbitrary here. `again` records that the splash screen was confirmed a second time
before the first confirmation was handled. Branches for missing dependencies are
left out, because `main.go` wires all of them; so are a message nothing sends
(`MigrationAbandonedMsg`) and the log-out banner of the bootstrap screen, which
`ClassifyBlockers` never causes. Quitting is immediate.

**HeadlessInstall.** A `.env` is represented by the number of the run that
generated its password. The services use the host's network, so running
containers occupy the ports a new scan looks at: a ready database for sure, any other
running service only once it has bound its port. A compose file that was cut short is
refused by `docker compose` if it names a volume that it no longer declares, which is at the
end of the file; cut before that, it is the database alone, without its volume
(`Declared`). `docker_install` is
`curl | sh`, which exits with 0 after a failed download. A container exits only
when it is stopped by hand, given the restart policies of the compose file;
`docker compose ps` does not list it then.

**InstallationDetection.** A path is what `os.Stat` says of it, a PM2 record the
five questions that `LegacyPolicy` asks of it. `LegacyVerdicts` are the answers of
the legacy probe over all legacy directories and PM2 listings of up to one record,
each with whether there is a trace of a legacy installation at all.

**AsteriskInstaller.** A configuration file is a sequence of lines: the operator's,
which bind the AMI locally or not, and the markers and the body of the managed
section. `Managed` and `InManaged` are the marker algorithm of `templates.go`. The
properties compare two texts by `SameOwnLines`, a pairing of the operator's lines (those
outside a section) that keeps their order.
A write that is cut short leaves the first few lines. The operator may edit a file
between two runs (`Edit`, up to `MaxLines` lines); what is added after a begin
marker that lost its end marker lies inside the section, as the code sees it, and
the next run drops it. The running daemon remembers what it has loaded. The
snapshot is a variable of the process, so `Kill` loses it. `QueriesFail` lets
`dpkg` or `systemctl` fail, which the code reads as "no".

**ComposeStream.** `Scan`, `ScanEOF` and `Send` are one turn of a scanner's loop:
stdout is read in a goroutine, stderr in the caller, which then waits for the
goroutine and the process. A line longer than the scanner's 64 KB ends the scan
like the end of the file, and the pipe fills up behind it. `Receive` and `Show` are
a consumer's turn; the TUI's is a command that the handler of the line before it
issues, so it ends when another screen is shown (`LeaveScreen`).

**RunLog.** Names of logs are numbers. The clock may be set back, so a new name is
any unused one; `orderly` records that no pruning was killed or failed, a failure
because another run was faster excepted. `Log` writes
a record, a part of it or nothing, and after a failure never again.

**ConfigParser, NodeConfig.** A parse function takes a position and returns the
next one with a value, like the cursor of `config_parser.go`. The reference is
written differently, over bracket depth and comma-separated parts, so that a
mistake in one is not repeated in the other.

**ContainerDiscovery, LegacyDiscovery.** Containers have the attributes that `safeDetails` keeps. What a
client at an address reaches (`Reached`) and which containers can run side by side
(`Compatible`) are docker's, and marked external. Containers are stopped, started,
removed and renamed up to `MaxDisturbances` times, at any point; `stale` are those
inspected before the last change. `Loopback4` and `OtherAddresses` are the addresses there
are. `ContainerDiscovery` leaves open what the configuration is resolved to
(`Resolved`), so that it can be proved about; `LegacyDiscovery` puts the parser's answer
there. The destination's own preflight is in `BackupAction`. `Shown` is what `docker
inspect` shows of a container: `NetworkSettings.Ports`, which `safeDetails` reads, is empty
while the container is stopped, whatever ports it is configured with. (The fakes of the
repository's tests keep them.)

## 3. The runs

Every property has a mutant: an edit of the model like a bug in that code, under
which TLC finds the property violated with the same configuration.

### Runs that pass

| Run | Distinct states | Bounds and what they allow |
|---|---|---|
| `restore` | 18,981 | one run, a supported and an unsupported platform, a cleaned backup root and a Compose that lists what has stopped; every call fails or not, every failed database command may go on, cancellation and expiry at any step. No counter is bounded. |
| `handoff` | 214,120 | two services, three incarnations of each (the original, a recovery, a retried recovery or a respawn), two completions, so that a success can race a failure, and one disturbance at any moment |
| `backup` | 379,810 | two operations, two checksums, so that dumps are equal or different; crashes |
| `installer` | 405,133 | both schedulers; with messages in any order one bootstrap fix, with immediate ones first two, so that a preflight can call for them one after the other; two hasty keys, two polls |
| `headless` | 600,433 | three commands (install, repair, install or update), two services, two polls |
| `asterisk` | 5,813,867 | two runs, so that one starts from what the other left and the operator edited; files the operator adds to have up to four lines |
| `stream` | 243,930 | up to three lines on each stream, any of them too long, and a pipe and a channel for one line each, so that both are full at a time and lines are left behind an overlong one |
| `runlog` | 1,087,325 | three processes that prune at a time, the first of which goes on to its exit code; four names, any of them present at first, one log kept |
| `discovery` | 1,320,777 | three scripts and all those one token away, with four sets of variables; and two containers, the first of which has at most one thing out of the ordinary, with two disturbances |

* `restore`: a result from before the cutover means an untouched database
  (`BeforeCutoverMeansUntouched`), success means the legacy data is served
  and that the credentials of the replacement are gone
  (`SuccessMeansLegacyServed`), a run that ends in a rollback is a partial cutover, and
  whatever the rollback reports, a backend it leaves running serves whole data: the installed
  data if the archive was reloaded, the legacy data if the rollback gave up before
  (`RollbackVerdictIsTrue`), nothing is dropped without a published and
  current archive at any instant, so also when the installer dies there
  (`NothingDroppedUnarchived`), a failure before the cutover leaves the backend
  running (`UncancelledFailureServesAgain`), the contents change only under a
  stopped backend (`QuietCutover`), the archive is never withdrawn
  (`BackupPreserved`), the run ends (`Terminates`), and the whole implements
  `DatabaseCutover` (`ImplementsCutover`). The rollback's verdict, the archive being
  current and `QuietCutover` hold until a command outlives its client; the others
  hold in any case.
* `handoff`: a complete lease means that every captured service is stopped and
  its port free (`LeaseMeansQuiet`), a verified recovery means that they
  serve again, and a verified failure completion that the container runs too
  (`VerifiedMeansServing`), and the whole implements `MigrationLease`
  (`ImplementsLease`): a refusal after a failed quiescence has undone it
  (`QuiescenceFailureCompensated`, stated on its own for its proof), a deployment stays
  quiet under a live or a released lease whatever completions come late, and of racing
  completions one acts. These are stated
  for undisturbed services, since nothing keeps an operator from starting or
  stopping one later. Disturbed or not, nothing is started that was not stopped
  (`StartsOnlyWhatItStopped`), and all calls return (`CallsReturn`).
* `backup`: a validated result has its pair, from its own dump
  (`ValidatedMeansPaired`), a failure publishes nothing
  (`FailureLeavesNothingPublished`), what an operation leaves is told by its result
  (`NothingLeftBehind`: the dump's container by a failed cleanup, the validator's by a
  failed validation, the password by a failed cleanup or a dump that was never started) and
  the lock is gone at the end, no published file is
  replaced (`NeverReplaced`), every operation ends (`Terminates`). Operations that crashed are
  outside the ones about cleaning up.
* `installer`: no screen waits for nothing (`NoScreenIsStuck`), ports are exempt
  only under a lease, and, as long as there is one detection, a migration ends in
  success only after its restore (`SuccessNeedsRestore`) and the program ends only
  without a live lease (`LeaseAccountedFor`). Where messages sent at once come first, a fix is
  not run twice in one pass (`FixesNotRepeated`), and work that was begun ends
  (`WorkEnds`).
* `headless`: files are written only on a host that passes the checks
  (`WritesOnlyOnPassingHost`), what is deployed is whole
  (`DeploysWholeFiles`), two accepting runs repair what has a fix
  (`TwoRunsRepair`), wherever a command was killed, the interactive menu offers
  nothing that does harm there, and sees an installation that reported success
  (`MenuFitsHost`), commands end (`CommandsEnd`).
* `asterisk`: a rollback whose commands worked restores files, bundle, package and
  whether the service is enabled, and leaves nothing running that was not
  (`RollbackRestoresHost`); success means a daemon with the section loaded, exactly
  one section in each file, and the operator's own local lines in their order
  (`SuccessMeansConfigured`).
* `stream`: nothing is sent into a closed channel (`NoSendAfterClose`), lines are
  shown in order, once, and by update completely (`ProgressInOrder`), and the
  command returns, unless its screen is left or a line is too long
  (`StreamReturns`).
* `runlog`: only old logs are pruned, from however stale a listing
  (`PrunesOnlyOldLogs`), once nobody prunes every log beyond the latest is one that its
  own run has spared, although a run stops pruning when another was faster
  (`LogsBounded`), and a log tells how its run ended
  (`LogTellsTheRun`).
* `discovery`: `config.js` is read as Node evaluates it, and what is accepted is what the
  selection assumes (`ResolvesLikeNode`), the
  dump is of the container it is filed under (`DumpsWhatItSelected`, until a
  container changes after its inspection, and but for addresses the selection takes
  for the same), and a refusal names a reason that holds of what docker shows
  (`RefusalIsTrue`): a running master that is configured rightly is planned for, and a
  container is to be started only if it would then answer at the configured endpoint.

Deadlock is checked for the TUI, whose end states are explicit steps. The other
components stop when their operation has returned or the operator runs no further
command, so their configurations switch the check off; termination is stated as a
property instead (Asterisk's set-up, a run's log and the discovery are straight
lines of steps, with none to wait for).

### Runs that show a disagreement

Each refutes one statement of a document, a comment or a message of the program.
`PROJECT.json` quotes it.

| Run | What TLC finds |
|---|---|
| `restore_slash` | the trailing slash of the default backup root makes every target backup refused: with the production wiring no restore passes this gate |
| `installer_quit` | a late result continues an installation that the operator quit |
| `headless_password` | a second installation gets a password the database does not have |

### Further disagreements

The modules state more of what the documents say, and TLC refutes each of these
with the configuration of the component's passing run and the definition named as
its only property (for `OperatorPackageKept`, with `QueriesFail = TRUE`; for
`StoppedBackendIsProved`, with `PsListsStopped = FALSE`, the program's value).

| Definition | The document | What the code does |
|---|---|---|
| `CancellationCleansStaging` | restore `spec.md:247` | a refused dump leaves its staged file: `CreateValidated` returns (`restore_backup.go:58`) before its removal is deferred |
| `FailedRollbackLeavesBackendStopped` | restore `spec.md:229` | the rollback returns before its stop when PostgreSQL is unreachable (`restore.go:112`), and discards the error of its last stop (142) |
| `StopFailureRestartsBackend` | restore `tasks.md:109` | a stop that failed after stopping is not undone (`restore.go:49`) |
| `CancelledRunReportsFailedRecovery` | restore `spec.md:255` | "cancelled" overwrites the code of a failed restart (`restore.go:159`) |
| `HealthProbeWaits` | restore `design.md:519` | one look at a starting backend costs a rollback (`restore_adapters.go:139`) |
| `QuietCutoverWhateverRuns` | restore `spec.md:247` | only the docker client is killed (`process.go:208`): its container may change the database under a running backend |
| `StoppedBackendIsProved` | restore `design.md:24` | **no rollback succeeds**: `BackendStopped` needs a record of the backend (`restore_adapters.go:131`), and `docker compose ps` without `--all` (`runner.go:399`) has none of a stopped service; every rollback ends with `restore-rollback-stop`, or before, with the database as the failed cutover left it |
| `SuccessLeavesNoCredential` | restore `proposal.md:60` | the errors of `credential.Cleanup()` are discarded in the probe (`restore_process.go:96`) and the dump (`restore_adapters.go:64`): a success can leave password files |
| `NoLeaseIsDropped` | restore `design.md:244` | when the disposition and the recovery both fail, stopped services are left with no lease (`handoff.go:76`) |
| `CancelledBeginKeepsContainer` | `migration_quiescence.go:168` | a cancelled disposition leaves the container stopped (`handoff.go:68`) |
| `ReplacementSpared` | restore `spec.md:335` | `pm2 stop` goes to an id: a respawned process is stopped in place of the proven one (`pm2_quiescence.go:361`) |
| `OneActiveOperation` | menu `spec.md:400` and `416` | the lock is released before validation and publication (`destination_store.go:183`): a second operation starts meanwhile |
| `CancellationRemovesTemporaries` | menu `spec.md:409` | a cancelled publication leaves the partial manifest (`manifest.go:120`) |
| `PasswordNeverStays` | menu `design.md:502` | when the preparation of the credential or of the command fails (`backup_action.go:382` and `386`), a password file whose removal fails as well is left, and the result does not tell |
| `StoppedMasterIsToldStopped` | menu `explore-postgresql-backup.md:57`; `container_selector_test.go:144` | a stopped container has no published ports (`container_inspector.go:145`), so a stopped master is refused as an endpoint mismatch, and nobody is told to start it |
| `SuccessLeavesLegacyStopped` | restore `design.md:548` | success is shown after a recovery has restarted the legacy services (`model.go:930`) |
| `RecoveryVerdictShown` | restore `design.md:546` | the verdict of a recovery is dropped on another screen (`model.go:692`) |
| `SuccessMeansEveryServiceReady` | `installer-service-verify/spec.md:64` | `docker compose ps` without `--all` does not list an exited service (`runner.go:399`) |
| `MalformedIsInconclusive` | menu `spec.md:72` | a compose file that a killed run cut short counts as an installation, and the menu offers only the update (`workspace_probe.go:57`) |
| `DrainerEnds` | `runner.go:153`: "Closes the channel when done." | neither `Pull` nor the unattended install closes it, so the goroutine that prints the lines never ends (`headless/run.go:279`) |
| `OperatorServiceKept` | Asterisk `tasks.md:43` | a rollback stops a service it started but does not restart one that ran before, on its own configuration (`installer.go:189`) |
| `PackageFailureStopsService` | Asterisk `proposal.md:53` | a package installation that fails late has no rollback (`installer.go:55`) |
| `KilledRunKeepsOperatorLines` | Asterisk `design.md:13` | files are rewritten in place, with a snapshot in memory only (`installer.go:217`) |
| `OperatorPackageKept` | Asterisk `tasks.md:42` | a failed query reads as "not installed", and the rollback removes the package (`production.go:32`) |

"restore", "menu" and "Asterisk" are the changes `legacy-database-restore`,
`contextual-installation-menu` and `2026-07-06-asterisk-optional-server-setup`
under `openspec/changes`.

Conditions that some properties carry, because the code does not keep them without:

* Menu `design.md:424` says "`Run` revalidates mutable preconditions before
  executing." It does not look at the container again; without `plan \notin stale`,
  `DumpsWhatItSelected` is refuted by another container that took the port.
* The selection takes a binding at `127.0.0.2` for one at `127.0.0.1`, and
  `localhost` for either family (`container_selector.go`); hence the two exceptions
  of `DumpsWhatItSelected`. A container selected by a network alias is never reached
  at all: the helper that dumps is on the host's network.
* A port that is blank, no number or the literal 0 becomes the default, and `??` with a
  blank variable uses the fallback, where Node would take the variable:
  `ResolvesLikeNode` speaks of settings Node can use.
* An overlong line blocks docker, and with it the command, once the pipe behind it is
  full; nobody looks at the scanner's error (`command.go`). `StreamReturns` is refuted
  without its condition.
* `main.go` wires an empty `LegacyPolicy`, so in production no PM2 record ever
  matches; the model has a policy that can.
* The splash screen takes Enter twice before the first one is handled (`splash.go:57`),
  and each starts a detection, which has no timeout and whose result is handled on
  any screen (`model.go:388`). A late second one shows the menu in the middle of
  something else: during a quiescence, whose lease is then dropped, so that the menu
  can be quit with stopped services; or during an installation, whose health ticks
  then carry a migration that is chosen from this menu to its success without a restore.
  Hence `~again` in `SuccessNeedsRestore` and `LeaseAccountedFor`. The shortest behaviours
  we know of take seven and fourteen early keys; the run allows two. The proof showed
  the condition to be needed, and that no other is.
* A run stops pruning its own listing at a file that another has removed, and never
  removes its own log: with a listing older than the others', up to as many logs as there are
  runs stay beyond those that are kept. `LogsBounded` says which.
* A kill between the rename of `.env` and the writing of the compose file leaves a
  host that is "Unknown", with no action in its menu.

### Fairness

Weak fairness is assumed of the steps of the program and of the commands it waits
for: each external command has a timeout or ends by itself, each recovery has a
context with a deadline, and Bubble Tea delivers every message. Nothing is assumed
of the operator, of cancellation, of crashes, or of PM2's and docker's own moves,
with two exceptions: the deadlines of the quiescer's polling loops do pass, and in
`stream` docker writes its lines and ends, and the goroutines run. The
TUI's keys are not fair, so `WorkEnds` is about work already begun.

## 4. What is proved

Fifty-two theorems, in eight modules. Each states a property of section 3 (two do not:
`HandoffUsedAsGranted`, which links two modules, and `RollbackStopsShort`), the
inductive invariant it rests on (`Invariance`, `Spec => []IInv`) or the module's type
invariant (`TypeCorrect`), for every value of the constants. On the
instance of its module's run, each inductive invariant is also checked by TLC.

| Module | Theorem: property | For all |
|---|---|---|
| `RestoreCoordinatorProofs` | `BeforeCutoverIsTrue`: `BeforeCutoverMeansUntouched`; `SuccessIsTrue`: `SuccessMeansLegacyServed`; `RollbackIsTrue`: `RollbackVerdictIsTrue`; `UnlistedBackendStopsRollback`: `RollbackStopsShort`; `NothingLost`: `NothingDroppedUnarchived`; `FailureServesAgain`: `UncancelledFailureServesAgain`; `QuietCutoverHolds`: `QuietCutover`; `BackupPreservedHolds`: `BackupPreserved`; `RestoreImplementsCutover`: `ImplementsCutover` | platforms, both forms of the backup root, both values of `PsListsStopped` (`RollbackStopsShort`: `FALSE`) |
| `MigrationHandoffProofs` | `LeaseIsQuiet`: `LeaseMeansQuiet`; `VerifiedIsServing`: `VerifiedMeansServing`; `FailureIsCompensated`: `QuiescenceFailureCompensated`; `StartsOnlyStopped`: `StartsOnlyWhatItStopped`; `HandoffImplementsLease`: `ImplementsLease` | sets of services, disturbances, incarnations and completions |
| `BackupActionProofs` | `ValidatedIsPaired`: `ValidatedMeansPaired`; `FailureIsUnpublished`: `FailureLeavesNothingPublished`; `NothingIsLeft`: `NothingLeftBehind`; `NeverReplacedHolds`: `NeverReplaced`; of `DiscoverySpec`: `DumpIsOfTheSelected`: `DumpsWhatItSelected`; `RefusalReasonIsTrue`: `RefusalIsTrue` | sets of operations and checksums, with and without crashes; containers, addresses, changes, and whatever the configuration resolves to |
| `InstallerTUIProofs` | `NoScreenWaitsInVain`: `NoScreenIsStuck`; `LeaseIsAccountedFor`: `LeaseAccountedFor`; `SuccessIsRestored`: `SuccessNeedsRestore`; `FixesRunOnce`: `FixesNotRepeated`; `HandoffIsUsedAsGranted`: `HandoffUsedAsGranted` | sets of fixes, early keys, polls |
| `HeadlessInstallProofs` | `WritesOnPassingHost`: `WritesOnlyOnPassingHost`; `DeployedFilesAreWhole`: `DeploysWholeFiles`; `TwoRunsSuffice`: `TwoRunsRepair`; `MenuIsSafe`: `MenuFitsHost` | sequences of commands, sets of services, polls |
| `AsteriskInstallerProofs` | `RollbackIsComplete`: `RollbackRestoresHost`; `SuccessIsConfigured`: `SuccessMeansConfigured` | runs, and files of any length |
| `ComposeStreamProofs` | `NeverSentAfterClose`: `NoSendAfterClose`; `ProgressIsInOrder`: `ProgressInOrder` | numbers of lines, sizes of pipe and channel |
| `RunLogProofs` | `OnlyOldLogsArePruned`: `PrunesOnlyOldLogs`; `DirectoryIsBounded`: `LogsBounded`; `TheLogIsTrue`: `LogTellsTheRun` | sets of runs and of names, logs kept, events |

**Assumptions.** The named assumptions on the constants say what kind of value each
is: that a set is finite, that a bound is a natural number, that the marker for
"nobody" is no operation, that containers are numbered, that `127.0.0.1` is a loopback
address and that names and unspecified addresses (`localhost`, `0.0.0.0`) are no host
address (`AddressAssumption`). Of docker, the discovery assumes in its initial state, and
keeps, that names are unique and that no two running containers have a socket at one
address (`DockerConsistent`), and that a network alias is not a loopback address. One
theorem and its invariant assume more: `RollbackIsComplete`
needs `~QueriesFail`, that `dpkg` and `systemctl` answer; without it TLC refutes the
property (`OperatorPackageKept`, section 3). `TypeCorrect` and `SuccessIsConfigured` of
that module do not. `UnlistedBackendStopsRollback` assumes `~PsListsStopped`, which is what
the program's call of `docker compose ps` amounts to.

None of the properties is inductive. They speak of what a component reports or leaves
at the end, and the reason they hold lies in how it got there. What `IInv` adds:

* **Restore.** Which calls belong to which phase (`PhaseInv`); that the mutation flag is
  down exactly in the phases that may report "before cutover", and up only behind a
  published archive (`MutationInv`); how the result is classified while it is built
  (`ResultInv`); that the backend is stopped from the stop to the start in the forward
  phase, and from its proof to its start in the rollback (`BackendInv`); and what the
  database and the archive hold at each step, so that a backend that runs before that
  proof has the legacy data under it (`ContentInv`). The five actions of
  `Replace` share `ReplaceFailsResult`, on how a failing replacement is classified, and
  three of them `AmbiguousOrphans`, on what a failed command leaves running. The
  refinement maps the database to three contents and the outcome to a verdict.
* **Handoff.** A verdict rests on snapshots that are over. `QuietInv` and `RestoredInv` say
  that what a snapshot saw of an undisturbed service is still true: what was stopped
  stays stopped until a recovery begins, and what a recovery restored keeps serving.
  `EvidenceInv` orders the evidence (captured, acknowledged, verified), `StartInv` says
  what is known of the service about to be started, and `VerifiedInv`, `ContainerInv` and
  `LeaseInv` tie reports and lease to it. The refinement needs one consequence of these:
  undisturbed, what a lease stands for is so (`LeaseTruth`). Then every step works on the
  deployment while nothing is promised about it, or returns a result, or leaves both alone.
* **Backup.** At each step, which of the lock, the staged files and the published names
  are the operation's own (`StagedInv`, `SecretInv`, `DumpInv`, `ManifestInv`). Other
  operations' steps leave these alone, because a publication never replaces.
* **Discovery.** What was inspected is listed, and still so unless stale (`ListInv`,
  `SeenInv`); the plan is a match (`PlanInv`); where nothing fails or changes, what is
  listed or inspected is everything there is (`CompleteInv`). That the
  configured address reaches the planned container and no other then follows from
  `DockerConsistent`.
* **Installer.** What can be in flight on which screen. `NoScreenIsStuck` and the typing of
  the bag are kept by every step; `FlowInv` follows a session: one detection (`StartInv`),
  nothing of a migration without one (`PlainInv`), one awaited answer up to the lease
  (`EarlyInv`), and from then on no way back before it, a restore behind every message
  that leads to success (`LateInv`). It is conditional on `~again`: after a second
  detection `StartInv` fails, and with it the two properties that depend on it.
  `FixInv` says that what has run was attempted, or is called so next. For
  `HandoffUsedAsGranted`, whatever concerns a lease comes from the handoff (`HeldInv`), and
  under a lease that came with an error nothing but its recovery is under way, with no
  installation whose success could complete it (`SalvageInv`). Both are also checked by TLC.
* **Unattended commands.** What the checks have established stays so up to the writes
  (`HostInv`), which files are whole at which step (`FilesInv`, `ServedInv`), and for
  `TwoRunsRepair` an account of which fixes are still to do (`RepairInv`). `MenuFitsHost`
  applies the classification of `InstallationDetection` to every host that satisfies these.
* **Asterisk.** At each step of a rollback, the host is the one before the run except for
  the steps not undone yet (`UndoInv`), for which the snapshot is needed and true
  (`SnapInv`), and the run knows what it installed itself (`OursInv`). For success, a
  second invariant (`WrittenInv`) that needs no query to be answered: the texts that
  writes, whole or cut short, and the operator can leave have one section at most, whose
  lines follow one another (`ShapeInv`), a file is unchanged up to its step and configured
  from then on (`FilesInv`), and the steps done have had their effect (`DoneInv`). The
  lemmas below it say what the marker algorithm keeps of any text of that shape.
* **Stream.** Of each stream, the lines shown, the line being handled, those in the channel,
  the line held by the scanner and those in the pipe are, in this order, all the lines
  written (`PipeInv`, `ReaderInv`, `ShownInv`, `HandlingInv`, `ChannelInv`, `SentInv`); the
  channel is closed only by a command that is through with both (`CloseInv`).
* **Run log.** For `LogsBounded`, that whoever removed a log reaches every older one on its
  list (`ReachInv`): a run that stops because another was faster leaves the rest to that
  one. The lists themselves are in descending order and complete (`OrderInv`, `DoomedInv`).

The proofs have one lemma per action and in it one step per conjunct of the invariant;
lemmas on sequences, names and messages in flight come first.

**Only model-checked.** Liveness (`Terminates`, `CallsReturn`, `WorkEnds`, `CommandsEnd`,
`StreamReturns`) is beyond this prover. `ConfigParser` and `NodeConfig` are recursive over the
tokens; what they compute for every input is out of its reach, and so is `ResolvesLikeNode`.
The proofs about the selection do not rest on it, except for the clause
`config \in Resolved`: that what the parser accepts is what the selection is proved for.

## 5. What is not modelled

* The lexer of `config.js`, and the JSON of `docker inspect` and `pm2 jlist`: the
  models start from tokens and from what the answers say. Image references are
  right or not.
* The text of files and of command lines, file modes, ownership and symlink
  checks: a check may fail, and that is all the models know of it.
* Views, what the progress parser makes of a line, and which characters of a log's
  fields are redacted.
* Which alternative ports are proposed, the parser of the target's `.env`, and the
  syntax of the flags.
* Recovery of a stale backup lock: the code has none.
* The re-exec for a stale docker group, which `main.go` discards, and the shell
  script that downloads the program.

## 6. Plan

1. Done: the restore with its abstract specification and proofs; quiescence and
   handoff, with theirs; backup; the TUI; the unattended commands; Asterisk, with its
   files as lines; the streaming of progress; the run log; detection; the configuration
   parser; the selection of the legacy container. Of the safety properties of the runs,
   all but `ResolvesLikeNode` are proved.
2. Next, models: `PortPlan` (the resolution of port conflicts in `port_scan.go`,
   alternatives and exemptions included); a module that composes `InstallerTUI` and
   `MigrationHandoff` in place of the TUI's summary of a completion, for which
   `MigrationLease` and `HandoffUsedAsGranted` are the interface.
3. Next, proofs: in `HeadlessInstall`, that a failed command leaves the files of the
   installation before it; that `InstallerTUI`'s own lease implements `MigrationLease`.
