--------------------------- MODULE HeadlessInstall ---------------------------
(***************************************************************************)
(* The unattended life of an installation: internal/headless (install),    *)
(* internal/update and internal/restart, run one after the other by an     *)
(* operator on one host, each from the files and containers the last one   *)
(* left.  A run may be killed at any step.                                 *)
(*                                                                         *)
(* An install run checks the host (internal/preflight), repairs what       *)
(* ClassifyBlockers calls fixable (internal/bootstrap), checks again,      *)
(* scans the ports, writes .env and the compose files, pulls, starts and   *)
(* polls the services.  Log lines and the content of the files are left    *)
(* out, but for the database password: every .env has a fresh one, and the *)
(* database volume keeps the one it was first started with.                *)
(***************************************************************************)
EXTENDS InstallationDetection, Sequences, FiniteSets

CONSTANTS Services,   \* the services of docker-compose.yml
          Database,   \* the one with the database volume
          MaxRuns,    \* commands the operator runs
          MaxPolls    \* health polls before VerifyTimeout

ASSUME ServicesAssumption == IsFiniteSet(Services) /\ Database \in Services
ASSUME BoundsAssumption == MaxRuns \in Nat /\ MaxPolls \in Nat \ {0}

VARIABLES pc,        \* where the running command is, or "idle"
          mode,      \* the last command run
          cfg,       \* headless.Config
          env,       \* deps.Env: the BootstrapEnv of this process
          host,      \* what the preflight checks look at
          todo,      \* the bootstrap actions still to run
          files,     \* .env (its password, 0: none), its temporary file, the compose files
          volume,    \* the password the database volume was created with; 0: none
          services,  \* what the containers do
          runs,      \* commands started; also numbers the generated passwords
          polls,     \* health polls of this run
          result,    \* how the last command ended
          clean      \* finished accepting install runs whose fixes all worked (history)

hostVars == <<env, host, todo>>
runVars == <<mode, cfg, runs>>
vars == <<pc, runVars, hostVars, files, volume, services, polls, result, clean>>

Dirs == {"media_writable", "config_writable", "workspace_writable"}
DirStates == {"ok", "missing", "denied"}
ServiceStates == {"absent", "starting", "ready", "restarting", "exited"}
Steps == {"preflight", "fix", "recheck", "portscan", "envTmp", "envRename", "compose",
          "gpu", "pull", "up", "verify", "restart"}
Fixes == Dirs \union {"docker_install", "systemd_start_docker"}
FileStates == {"absent", "partial", "whole"}

\* One type invariant for the commands' state.
TypeOK ==
    /\ pc \in Steps \union {"idle"}
    /\ mode \in {"none", "install", "update", "restart"}
    /\ cfg \in [accept : BOOLEAN, deploy : BOOLEAN, pull : BOOLEAN]
    /\ env \in [docker : BOOLEAN, systemd : BOOLEAN]
    /\ host \in [supported : BOOLEAN, docker : {"missing", "stopped", "running"},
                 compose : BOOLEAN, systemd : BOOLEAN, dirs : [Dirs -> DirStates]]
    /\ todo \in Seq(Fixes)
    /\ files \in [env : 0..MaxRuns, tmp : FileStates, compose : FileStates, gpu : FileStates]
    /\ volume \in 0..MaxRuns
    /\ services \in [Services -> ServiceStates]
    /\ runs \in 0..MaxRuns /\ polls \in 0..MaxPolls
    /\ result \in {"none", "ok", "failed", "killed"}
    /\ clean \in [runs : 0..MaxRuns, sofar : BOOLEAN]

\* A host before anything was installed.  Only the workspace directory, whose fix
\* is a plain mkdir -p, tells a missing directory from one without permission.
Init ==
    /\ pc = "idle" /\ mode = "none" /\ result = "none"
    /\ cfg = [accept |-> FALSE, deploy |-> FALSE, pull |-> FALSE]
    /\ env = [docker |-> FALSE, systemd |-> FALSE]
    /\ host \in [supported : BOOLEAN, docker : {"missing", "stopped", "running"},
                 compose : BOOLEAN, systemd : BOOLEAN, dirs : [Dirs -> DirStates]]
    /\ host.docker = "missing" => ~host.compose
    /\ \A d \in Dirs \ {"workspace_writable"} : host.dirs[d] # "denied"
    /\ todo = <<>>
    /\ files = [env |-> 0, tmp |-> "absent", compose |-> "absent", gpu |-> "absent"]
    /\ volume = 0 /\ services = [s \in Services |-> "absent"]
    /\ runs = 0 /\ polls = 0
    /\ clean = [runs |-> 0, sofar |-> FALSE]

-----------------------------------------------------------------------------
(* The checks and what can be done about them.                             *)

\* Coordinator.Run: the checks that fail.  An unsupported system or
\* architecture ends the report; Docker's version, the GPU and the ports warn.
Failing(h) ==
    IF ~h.supported
    THEN {"platform"}
    ELSE {c \in {"docker_daemon"} : h.docker # "running"}
         \union {c \in {"compose_version"} : h.docker = "missing" \/ ~h.compose}
         \union {d \in Dirs : h.dirs[d] # "ok"}

\* ClassifyBlockers: the failures no action remedies.  Without the docker
\* binary a failing compose check is left to the installation of Docker.
NonFixable(failing, e) ==
    {c \in failing : \/ c = "platform"
                     \/ c = "docker_daemon" /\ e.docker /\ ~e.systemd
                     \/ c = "compose_version" /\ e.docker}

Only(fix, condition) == IF condition THEN <<fix>> ELSE <<>>

\* Mutant: a daemon that does not run is not started through systemd.
MutFixable(failing, e) ==
    Only("docker_install", "docker_daemon" \in failing /\ ~e.docker)
    \o Only("media_writable", "media_writable" \in failing)
    \o Only("config_writable", "config_writable" \in failing)
    \o Only("workspace_writable", "workspace_writable" \in failing)

\* ClassifyBlockers: the actions, in the order they are run.
Fixable(failing, e) ==
    Only("docker_install", "docker_daemon" \in failing /\ ~e.docker)
    \o Only("media_writable", "media_writable" \in failing)
    \o Only("config_writable", "config_writable" \in failing)
    \o Only("workspace_writable", "workspace_writable" \in failing)
    \o Only("systemd_start_docker", "docker_daemon" \in failing /\ e.docker /\ e.systemd)

\* What an action that exits with 0 may have done.  "curl ... | sh" exits with 0
\* when the download failed; the installed daemon may or may not be started.
\* mkdir -p leaves a directory without permission as it is; sudo chown does not.
Repaired(h, fix) ==
    CASE fix = "docker_install" ->
             {h} \union {[h EXCEPT !.docker = d, !.compose = TRUE] : d \in {"stopped", "running"}}
      [] fix = "systemd_start_docker" -> {[h EXCEPT !.docker = "running"]}
      [] fix = "workspace_writable" ->
             {[h EXCEPT !.dirs[fix] = IF @ = "denied" THEN @ ELSE "ok"]}
      [] OTHER -> {[h EXCEPT !.dirs[fix] = "ok"]}

\* What it may have done when it fails or is cut short.
Attempted(h, fix) == {h} \union Repaired(h, fix)

-----------------------------------------------------------------------------
(* The install run (headless.Run).                                         *)

\* The command returns.
Return(how) ==
    /\ pc' = "idle" /\ result' = how
    /\ clean' = IF how # "killed" /\ clean.sofar
                   THEN [runs |-> clean.runs + 1, sofar |-> FALSE]
                   ELSE [clean EXCEPT !.sofar = FALSE]

Continue(step) == pc' = step /\ UNCHANGED <<result, clean>>

\* DetectEnv, when the dependencies of a process are built.
Detect(h) == [docker |-> h.docker # "missing", systemd |-> h.systemd]

\* main: alice-installer --unattended.
StartInstall ==
    /\ pc = "idle" /\ runs < MaxRuns
    /\ \E accept, deploy, pull \in BOOLEAN :
           /\ pull => deploy
           /\ cfg' = [accept |-> accept, deploy |-> deploy, pull |-> pull]
           /\ clean' = [clean EXCEPT !.sofar = accept]
    /\ env' = Detect(host)
    /\ runs' = runs + 1 /\ mode' = "install" /\ pc' = "preflight"
    /\ result' = "none"
    /\ UNCHANGED <<host, todo, files, volume, services, polls>>

Preflight ==
    LET failing == Failing(host)
        fixable == Fixable(failing, env)
    IN /\ pc = "preflight"
       /\ \/ failing = {} /\ Continue("portscan") /\ UNCHANGED todo
          \/ /\ failing # {}
             /\ NonFixable(failing, env) # {} \/ fixable = <<>> \/ ~cfg.accept
             /\ Return("failed") /\ UNCHANGED todo
          \/ /\ NonFixable(failing, env) = {} /\ fixable # <<>> /\ cfg.accept
             /\ Continue("fix") /\ todo' = fixable
       /\ UNCHANGED <<runVars, env, host, files, volume, services, polls>>

RunFix ==
    /\ pc = "fix"
    /\ \/ /\ pc' = "idle" /\ result' = "failed"
          /\ clean' = [clean EXCEPT !.sofar = FALSE]
          /\ host' \in Attempted(host, Head(todo))
       \/ /\ host' \in Repaired(host, Head(todo))
          /\ pc' = IF Len(todo) = 1 THEN "recheck" ELSE "fix"
          /\ clean' = [clean EXCEPT !.sofar = @ /\ host' # host]
          /\ UNCHANGED result
    /\ todo' = Tail(todo)
    /\ UNCHANGED <<runVars, env, files, volume, services, polls>>

\* Mutant: the actions succeeded, so the checks are taken to pass.
MutRecheck ==
    /\ pc = "recheck"
    /\ Continue("portscan")
    /\ UNCHANGED <<runVars, hostVars, files, volume, services, polls>>

Recheck ==
    /\ pc = "recheck"
    /\ IF Failing(host) = {} THEN Continue("portscan") ELSE Return("failed")
    /\ UNCHANGED <<runVars, hostVars, files, volume, services, polls>>

\* The services use the host's network.  A ready database has answered pg_isready at its
\* port; any other service may run, or be starting, and not have bound its port yet.
Serving == services[Database] = "ready"

\* A port is taken by this installation's services, or by anything else.
PortScan ==
    /\ pc = "portscan"
    /\ \/ Return("failed")
       \/ ~Serving /\ Continue("envTmp")
    /\ UNCHANGED <<runVars, hostVars, files, volume, services, polls>>

\* Render, with a new password, and the first half of AtomicWriter.WriteEnv.
WriteEnvTmp ==
    /\ pc = "envTmp"
    /\ \/ Return("failed") /\ \E t \in {files.tmp, "partial"} : files' = [files EXCEPT !.tmp = t]
       \/ Continue("envRename") /\ files' = [files EXCEPT !.tmp = "whole"]
    /\ UNCHANGED <<runVars, hostVars, volume, services, polls>>

\* Its second half; a failing rename removes the temporary file.
RenameEnv ==
    /\ pc = "envRename"
    /\ \/ Return("failed") /\ files' = [files EXCEPT !.tmp = "absent"]
       \/ Continue("compose") /\ files' = [files EXCEPT !.env = runs, !.tmp = "absent"]
    /\ UNCHANGED <<runVars, hostVars, volume, services, polls>>

AfterFiles == IF cfg.pull THEN "pull" ELSE "up"

\* Mutant: a compose file that exists is kept.
MutWriteCompose ==
    /\ pc = "compose"
    /\ Continue("gpu")
    /\ files' = [files EXCEPT !.compose = IF @ = "absent" THEN "whole" ELSE @]
    /\ UNCHANGED <<runVars, hostVars, volume, services, polls>>

\* os.WriteFile of docker-compose.yml and docker-compose.gpu.yml, in place.
WriteCompose ==
    /\ pc = "compose"
    /\ \/ /\ Return("failed")
          /\ \E f \in {files.compose, "partial"} : files' = [files EXCEPT !.compose = f]
       \/ Continue("gpu") /\ files' = [files EXCEPT !.compose = "whole"]
    /\ UNCHANGED <<runVars, hostVars, volume, services, polls>>

WriteGPU ==
    /\ pc = "gpu"
    /\ \/ Return("failed") /\ \E f \in {files.gpu, "partial"} : files' = [files EXCEPT !.gpu = f]
       \/ /\ IF cfg.deploy THEN Continue(AfterFiles) ELSE Return("ok")
          /\ files' = [files EXCEPT !.gpu = "whole"]
    /\ UNCHANGED <<runVars, hostVars, volume, services, polls>>

-----------------------------------------------------------------------------
(* docker compose, for an installation and an update.                      *)

Pull ==
    /\ pc = "pull"
    /\ Return("failed") \/ Continue("up")
    /\ UNCHANGED <<runVars, hostVars, files, volume, services, polls>>

\* The services that docker compose finds in docker-compose.yml, if it accepts it.  The
\* database comes first and names a volume that is declared at the end: a file that is cut
\* in between is refused, one that is cut before that is the database without a volume.
Declared == IF files.compose = "whole" THEN Services ELSE {Database}

\* The containers of `started' are created or started again, the ready ones only
\* if their image or environment changed; the first start of the database creates
\* its volume with the password of .env.
Start(started) ==
    /\ \E kept \in SUBSET {s \in started : services[s] = "ready"} :
           services' = [s \in Services |-> IF s \in started \ kept
                                              THEN "starting" ELSE services[s]]
    /\ volume' = IF Database \in started /\ volume = 0 /\ files.compose = "whole"
                    THEN files.env ELSE volume

\* docker compose up --detach: an update ends here, an installation verifies.
Up ==
    /\ pc = "up"
    /\ \/ /\ Start(Declared)
          /\ IF mode = "install" THEN Continue("verify") ELSE Return("ok")
          /\ polls' = 0
       \/ /\ \E started \in SUBSET Declared : Start(started)
          /\ Return("failed") /\ UNCHANGED polls
    /\ UNCHANGED <<runVars, hostVars, files>>

\* docker compose ps, without --all: containers that have stopped are not listed.
Listed == {s \in Services : services[s] \notin {"absent", "exited"}}

\* IsReady of every status, and at least one status.
AllReady == Listed # {} /\ \A s \in Listed : services[s] = "ready"

\* Mutant: the deadline is set anew after a poll that fails.
MutVerify ==
    /\ pc = "verify"
    /\ \/ AllReady /\ Return("ok") /\ UNCHANGED polls
       \/ polls < MaxPolls /\ Continue("verify") /\ polls' \in {0, polls + 1}
       \/ polls = MaxPolls /\ Return("failed") /\ UNCHANGED polls
    /\ UNCHANGED <<runVars, hostVars, files, volume, services>>

\* One iteration of the verify loop: a failing poll only costs time.
Verify ==
    /\ pc = "verify"
    /\ \/ polls < MaxPolls /\ AllReady /\ Return("ok") /\ UNCHANGED polls
       \/ polls < MaxPolls /\ Continue("verify") /\ polls' = polls + 1
       \/ polls = MaxPolls /\ Return("failed") /\ UNCHANGED polls
    /\ UNCHANGED <<runVars, hostVars, files, volume, services>>

-----------------------------------------------------------------------------
(* The other commands, the operator and the containers.                    *)

\* ResolveArtifacts: the files must exist.
Resolved == files.env # 0 /\ files.compose # "absent"

\* alice-installer update and alice-installer restart.
StartCommand(command, step) ==
    /\ pc = "idle" /\ runs < MaxRuns
    /\ runs' = runs + 1 /\ mode' = command
    /\ IF Resolved THEN Continue(step) ELSE Return("failed")
    /\ UNCHANGED <<cfg, hostVars, files, volume, services, polls>>

\* Existing containers, stopped or not, are started afresh.
Restarted(some) ==
    services' = [s \in Services |-> IF s \in some /\ services[s] # "absent"
                                       THEN "starting" ELSE services[s]]

\* docker compose restart.
Restart ==
    /\ pc = "restart"
    /\ \/ Return("ok") /\ Restarted(Declared)
       \/ Return("failed") /\ \E some \in SUBSET Declared : Restarted(some)
    /\ UNCHANGED <<runVars, hostVars, files, volume, polls>>

\* The process is killed; what it was writing may be cut short, and the command
\* it was waiting for may have done some or all of its work.
Kill ==
    /\ pc # "idle"
    /\ Return("killed")
    /\ \/ UNCHANGED <<files, host, services, volume>>
       \/ /\ \/ pc = "envTmp" /\ files' = [files EXCEPT !.tmp = "partial"]
             \/ pc = "compose" /\ files' = [files EXCEPT !.compose = "partial"]
             \/ pc = "gpu" /\ files' = [files EXCEPT !.gpu = "partial"]
          /\ UNCHANGED <<host, services, volume>>
       \/ /\ pc = "fix" /\ host' \in Attempted(host, Head(todo))
          /\ UNCHANGED <<files, services, volume>>
       \/ /\ pc = "up" /\ \E some \in SUBSET Declared : Start(some)
          /\ UNCHANGED <<files, host>>
       \/ /\ pc = "restart" /\ \E some \in SUBSET Declared : Restarted(some)
          /\ UNCHANGED <<files, host, volume>>
    /\ UNCHANGED <<runVars, env, todo, polls>>

\* A container starts, becomes ready, crashes, is restarted or stops.
ServiceStep ==
    /\ \E s \in Services :
           \/ services[s] = "starting"
              /\ \E n \in {"ready", "restarting"} : services' = [services EXCEPT ![s] = n]
           \/ services[s] = "restarting" /\ services' = [services EXCEPT ![s] = "starting"]
           \/ services[s] \in {"starting", "ready", "restarting"}
              /\ services' = [services EXCEPT ![s] = "exited"]
    /\ UNCHANGED <<pc, runVars, hostVars, files, volume, polls, result, clean>>

\* What the running command does next.
Step == \/ Preflight \/ RunFix \/ Recheck \/ PortScan \/ WriteEnvTmp \/ RenameEnv
        \/ WriteCompose \/ WriteGPU \/ Pull \/ Up \/ Verify \/ Restart

Next == \/ StartInstall \/ StartCommand("update", "pull") \/ StartCommand("restart", "restart")
        \/ Step \/ Kill \/ ServiceStep

\* Every command and timer a run waits for ends.
Spec == Init /\ [][Next]_vars /\ WF_vars(Step)

-----------------------------------------------------------------------------
(* Properties.                                                             *)

\* An install run writes its files, and so goes on to deploy, only on a host that
\* passes the checks at that moment: fixes that exit with 0 without repairing
\* anything (a failed download, mkdir -p on a directory without permission) are
\* found by the second preflight.
WritesOnlyOnPassingHost ==
    [][files' # files => Failing(host) = {}]_vars

\* The files of a run are whole before it starts the services: an interrupted write
\* of an earlier run is repaired by the next installation.
DeploysWholeFiles ==
    mode = "install" /\ pc \in {"pull", "up", "verify"}
        => files.compose = "whole" /\ files.gpu = "whole" /\ files.env = runs

\* Two accepting runs repair a host whose failures all have an effective fix: Docker
\* that is missing is installed by the first and, if its daemon was not started,
\* started by the second, which detects the environment again.
TwoRunsRepair ==
    /\ clean.runs >= 2
    /\ host.supported /\ host.systemd /\ host.compose
    => Failing(host) = {}

\* What os.Stat says of the files that this installation has.
Stat(exists) == {IF exists THEN "file" ELSE "absent", "unreadable"}

\* Whatever commands an operator has run, and wherever they were killed, the menu of the
\* interactive installer (CompositeDetector, NewContextMenuModel) offers nothing that does
\* harm: to install or to migrate only on a host with no file, volume or container of an
\* installation, and to install only without a trace of a legacy one; to update only where
\* the update finds its files.  An installation that reported success is seen.
MenuFitsHost ==
    pc = "idle" =>
    \A dotenv \in Stat(files.env # 0), base \in Stat(files.compose # "absent"),
       legacy \in LegacyVerdicts[host.supported] :
        LET menu == Classify(WorkspaceProbe(dotenv, base), legacy.presence)
        IN /\ menu \in {"NotInstalled", "LegacyPM2"} =>
                 ~Resolved /\ volume = 0 /\ \A s \in Services : services[s] = "absent"
           /\ menu \in {"NotInstalled", "Current"} => ~legacy.trace
           /\ menu = "Current" => Resolved
           /\ mode = "install" /\ result = "ok" /\ "unreadable" \notin {dotenv, base}
                  /\ ~legacy.trace => menu = "Current"

\* Every command ends: polls that fail or find services that are not ready only
\* use up the time.
CommandsEnd == pc # "idle" ~> pc = "idle"

-----------------------------------------------------------------------------
(* What the documents say and the code does not keep.                      *)

\* "POSTGRES_PASSWORD is generated by alice-installer at first-run"
\* (internal/assets/.env.example:12) and "If `.env` already exists, the installer
\* MUST detect it and prompt the operator" (REQ-ENV-4): the services an
\* installation has started are given the password that the database has.
PasswordMatchesDatabase ==
    pc = "verify" => files.env = volume

\* "Healthy but exited ... the service MUST NOT be counted as ready"
\* (installer-service-verify): success means that every service is ready.
SuccessMeansEveryServiceReady ==
    [][pc = "verify" /\ pc' = "idle" /\ result' = "ok"
          => \A s \in Services : services[s] = "ready"]_vars

\* "GIVEN one or more required artifacts are missing, unreadable, malformed ... THEN it
\* MUST report inconclusive current-installation evidence" (contextual-installation-menu,
\* spec.md:72-74): a compose file that a killed run has cut short is not taken for an
\* installation.
MalformedIsInconclusive ==
    pc = "idle" /\ files.env # 0 /\ files.compose = "partial"
        => WorkspaceProbe("file", "file") = "uncertain"
=============================================================================
