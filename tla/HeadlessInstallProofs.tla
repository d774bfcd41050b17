------------------------- MODULE HeadlessInstallProofs -------------------------
(***************************************************************************)
(* Proofs about the unattended installation, its update and its restart,   *)
(* for any services and any number of commands and of polls.               *)
(***************************************************************************)
EXTENDS HeadlessInstall, Integers, TLAPS

\* What the steps of a command are for.
Checking == {"preflight", "fix", "recheck"}
Writing == {"portscan", "envTmp", "envRename", "compose", "gpu"}

\* The types of the command and of the host.
RunTypeOK ==
    /\ pc \in Steps \union {"idle"} /\ mode \in {"none", "install", "update", "restart"}
    /\ cfg \in [accept : BOOLEAN, deploy : BOOLEAN, pull : BOOLEAN]
    /\ runs \in 0..MaxRuns /\ polls \in 0..MaxPolls
    /\ result \in {"none", "ok", "failed", "killed"}
HostTypeOK ==
    /\ env \in [docker : BOOLEAN, systemd : BOOLEAN]
    /\ host \in [supported : BOOLEAN, docker : {"missing", "stopped", "running"},
                 compose : BOOLEAN, systemd : BOOLEAN, dirs : [Dirs -> DirStates]]
    /\ todo \in Seq(Fixes)
DiskTypeOK ==
    /\ files \in [env : 0..MaxRuns, tmp : FileStates, compose : FileStates, gpu : FileStates]
    /\ volume \in 0..MaxRuns /\ services \in [Services -> ServiceStates]
CleanTypeOK == clean \in [runs : 0..MaxRuns, sofar : BOOLEAN]

\* Each step belongs to its commands.
ModeInv ==
    /\ pc \in Checking \union Writing \union {"verify"} => mode = "install"
    /\ pc \in {"pull", "up"} => mode \in {"install", "update"}
    /\ pc = "restart" => mode = "restart"
    /\ pc # "idle" => runs > 0

\* Past the checks the host passes them.
HostInv ==
    /\ mode = "install" /\ pc \notin Checking \union {"idle"} => Failing(host) = {}
    /\ pc = "fix" => todo # <<>>

\* What the run has written is whole; the other commands run on an installation.
FilesInv ==
    /\ mode = "install" /\ pc \in {"compose", "gpu", "pull", "up", "verify"} => files.env = runs
    /\ mode = "install" /\ pc \in {"gpu", "pull", "up", "verify"} => files.compose = "whole"
    /\ mode = "install" /\ pc \in {"pull", "up", "verify"} => files.gpu = "whole"
    /\ mode # "install" /\ pc # "idle" => Resolved
    /\ mode = "install" /\ pc = "idle" /\ result = "ok" => Resolved

\* What runs, and what it has stored, comes from an installation.
ServedInv == volume # 0 \/ (\E s \in Services : services[s] # "absent") => Resolved

Members(s) == {s[i] : i \in 1..Len(s)}

Todo == Members(todo)

\* A host that the fixes can repair.
Repairable == host.supported /\ host.systemd

\* Runs are counted once.
CleanInv ==
    /\ clean.runs + (IF clean.sofar THEN 1 ELSE 0) <= runs
    /\ clean.sofar => mode = "install" /\ pc # "idle" /\ cfg.accept

\* A run knows the Docker it has found.
EnvInv ==
    pc \in Checking =>
        /\ env.systemd = host.systemd
        /\ env.docker => host.docker # "missing"
        /\ clean.runs >= 1 /\ Repairable => env.docker
        /\ pc = "preflight" /\ ~env.docker => host.docker = "missing"

\* What a run without a failure so far has not repaired yet is still to do.
TodoInv ==
    /\ pc = "fix" => ("docker_install" \in Todo => ~env.docker)
    /\ pc \in {"fix", "recheck"} /\ clean.sofar =>
        LET later == IF pc = "fix" THEN Todo ELSE {}
        IN /\ \A d \in Dirs : host.dirs[d] # "ok" => d \in later
           /\ host.docker = "missing" => "docker_install" \in later
           /\ env.docker /\ host.docker = "stopped" => "systemd_start_docker" \in later

\* The first of two such runs leaves a Docker and the directories, the second one a host
\* that passes.
ProgressInv ==
    /\ clean.runs >= 1 /\ Repairable =>
          /\ host.docker # "missing"
          /\ host.compose => \A d \in Dirs : host.dirs[d] = "ok"
    /\ clean.runs >= 2 /\ Repairable /\ host.compose => host.docker = "running"

RepairInv == CleanInv /\ EnvInv /\ TodoInv /\ ProgressInv

\* The inductive invariant.
IInv == /\ RunTypeOK /\ HostTypeOK /\ DiskTypeOK /\ CleanTypeOK
        /\ ModeInv /\ HostInv /\ FilesInv /\ ServedInv /\ RepairInv
-----------------------------------------------------------------------------
(* Lemmas: the checks and the fixes.                                        *)

\* A host that passes has its Docker running and its directories writable.
LEMMA PassingHost ==
  ASSUME Failing(host) = {}
  PROVE  /\ host.supported /\ host.docker = "running" /\ host.compose
         /\ \A d \in Dirs : host.dirs[d] = "ok"
  <1>1. host.supported
    BY DEF Failing
  <1>2. host.docker = "running"
    <2>1. host.docker # "running" => "docker_daemon" \in Failing(host)
      BY <1>1 DEF Failing
    <2> QED
      BY <2>1
  <1>3. host.compose
    <2>1. ~host.compose => "compose_version" \in Failing(host)
      BY <1>1 DEF Failing
    <2> QED
      BY <2>1
  <1>4. ASSUME NEW d \in Dirs, host.dirs[d] # "ok" PROVE FALSE
    <2>1. d \in Failing(host)
      BY <1>1, <1>4 DEF Failing
    <2> QED
      BY <2>1
  <1> QED
    BY <1>1, <1>2, <1>3, <1>4

\* What is in one part of a list is in the list.
LEMMA MembersOfBoth ==
  ASSUME NEW S, NEW s \in Seq(S), NEW t \in Seq(S)
  PROVE  s \o t \in Seq(S) /\ Members(s \o t) = Members(s) \union Members(t)
  <1>1. /\ s \o t \in Seq(S) /\ Len(s \o t) = Len(s) + Len(t)
        /\ Len(s) \in Nat /\ Len(t) \in Nat
        /\ \A i \in 1..Len(s) : (s \o t)[i] = s[i]
        /\ \A i \in 1..Len(t) : (s \o t)[Len(s) + i] = t[i]
    OBVIOUS
  <1>2. ASSUME NEW x \in Members(s \o t) PROVE x \in Members(s) \union Members(t)
    <2>1. PICK i \in 1..(Len(s) + Len(t)) : x = (s \o t)[i]
      BY <1>1 DEF Members
    <2>2. CASE i \in 1..Len(s)
      BY <1>1, <2>1, <2>2 DEF Members
    <2>3. CASE i \notin 1..Len(s)
      <3>1. i - Len(s) \in 1..Len(t) /\ Len(s) + (i - Len(s)) = i
        BY <1>1, <2>3
      <3>2. x = t[i - Len(s)]
        BY <1>1, <2>1, <3>1
      <3> QED
        BY <3>1, <3>2 DEF Members
    <2> QED
      BY <2>2, <2>3
  <1>3. ASSUME NEW x \in Members(s) PROVE x \in Members(s \o t)
    <2>1. PICK i \in 1..Len(s) : x = s[i]
      BY DEF Members
    <2>2. i \in 1..Len(s \o t) /\ x = (s \o t)[i]
      BY <1>1, <2>1
    <2> QED
      BY <2>2 DEF Members
  <1>4. ASSUME NEW x \in Members(t) PROVE x \in Members(s \o t)
    <2>1. PICK i \in 1..Len(t) : x = t[i]
      BY DEF Members
    <2>2. Len(s) + i \in 1..Len(s \o t) /\ x = (s \o t)[Len(s) + i]
      BY <1>1, <2>1
    <2> QED
      BY <2>2 DEF Members
  <1> QED
    BY <1>1, <1>2, <1>3, <1>4

\* A list of one fix, or of none.
LEMMA MembersOfOne ==
  ASSUME NEW fix \in Fixes, NEW condition \in BOOLEAN
  PROVE  /\ Only(fix, condition) \in Seq(Fixes)
         /\ Members(Only(fix, condition)) = {f \in {fix} : condition}
  BY DEF Only, Members

\* ClassifyBlockers plans every fix that it has for a failure, and no other.
LEMMA PlannedFixes ==
  ASSUME NEW failing, NEW e \in [docker : BOOLEAN, systemd : BOOLEAN]
  PROVE  /\ Fixable(failing, e) \in Seq(Fixes)
         /\ Members(Fixable(failing, e)) =
                {f \in {"docker_install"} : "docker_daemon" \in failing /\ ~e.docker}
                \union {d \in Dirs : d \in failing}
                \union {f \in {"systemd_start_docker"} :
                            "docker_daemon" \in failing /\ e.docker /\ e.systemd}
  <1> DEFINE a == Only("docker_install", "docker_daemon" \in failing /\ ~e.docker)
             b == Only("media_writable", "media_writable" \in failing)
             c == Only("config_writable", "config_writable" \in failing)
             d == Only("workspace_writable", "workspace_writable" \in failing)
             s == Only("systemd_start_docker", "docker_daemon" \in failing /\ e.docker /\ e.systemd)
  <1>1. /\ "docker_install" \in Fixes /\ "media_writable" \in Fixes
        /\ "config_writable" \in Fixes /\ "workspace_writable" \in Fixes
        /\ "systemd_start_docker" \in Fixes
    BY DEF Fixes, Dirs
  <1>2. /\ ("docker_daemon" \in failing /\ ~e.docker) \in BOOLEAN
        /\ ("media_writable" \in failing) \in BOOLEAN /\ ("config_writable" \in failing) \in BOOLEAN
        /\ ("workspace_writable" \in failing) \in BOOLEAN
        /\ ("docker_daemon" \in failing /\ e.docker /\ e.systemd) \in BOOLEAN
    OBVIOUS
  <1>3. /\ a \in Seq(Fixes)
        /\ Members(a) = {f \in {"docker_install"} : "docker_daemon" \in failing /\ ~e.docker}
    BY <1>1, <1>2, MembersOfOne
  <1>4. /\ b \in Seq(Fixes)
        /\ Members(b) = {f \in {"media_writable"} : "media_writable" \in failing}
    BY <1>1, <1>2, MembersOfOne
  <1>5. /\ c \in Seq(Fixes)
        /\ Members(c) = {f \in {"config_writable"} : "config_writable" \in failing}
    BY <1>1, <1>2, MembersOfOne
  <1>6. /\ d \in Seq(Fixes)
        /\ Members(d) = {f \in {"workspace_writable"} : "workspace_writable" \in failing}
    BY <1>1, <1>2, MembersOfOne
  <1>7. /\ s \in Seq(Fixes)
        /\ Members(s) = {f \in {"systemd_start_docker"} :
                             "docker_daemon" \in failing /\ e.docker /\ e.systemd}
    BY <1>1, <1>2, MembersOfOne
  <1> DEFINE ab == a \o b
             abc == ab \o c
             abcd == abc \o d
  <1>8. Fixable(failing, e) = abcd \o s
    BY DEF Fixable
  <1> HIDE DEF a, b, c, d, s
  <1>9. ab \in Seq(Fixes) /\ Members(ab) = Members(a) \union Members(b)
    BY <1>3, <1>4, MembersOfBoth
  <1> HIDE DEF ab
  <1>10. abc \in Seq(Fixes) /\ Members(abc) = Members(ab) \union Members(c)
    BY <1>5, <1>9, MembersOfBoth
  <1> HIDE DEF abc
  <1>11. abcd \in Seq(Fixes) /\ Members(abcd) = Members(abc) \union Members(d)
    BY <1>6, <1>10, MembersOfBoth
  <1> HIDE DEF abcd
  <1>12. abcd \o s \in Seq(Fixes) /\ Members(abcd \o s) = Members(abcd) \union Members(s)
    BY <1>7, <1>11, MembersOfBoth
  <1>13. {x \in Dirs : x \in failing} =
           {f \in {"media_writable"} : "media_writable" \in failing}
           \union {f \in {"config_writable"} : "config_writable" \in failing}
           \union {f \in {"workspace_writable"} : "workspace_writable" \in failing}
    BY DEF Dirs
  <1> QED
    BY <1>3, <1>4, <1>5, <1>6, <1>7, <1>8, <1>9, <1>10, <1>11, <1>12, <1>13

\* A list without its head.
LEMMA MembersOfTail ==
  ASSUME NEW S, NEW s \in Seq(S), s # <<>>
  PROVE  /\ Head(s) \in Members(s) /\ Head(s) \in S /\ Tail(s) \in Seq(S)
         /\ Members(Tail(s)) \subseteq Members(s)
         /\ Members(s) \ {Head(s)} \subseteq Members(Tail(s))
         /\ Len(s) = 1 => Members(s) = {Head(s)}
         /\ Len(s) # 1 => Tail(s) # <<>>
  <1> DEFINE t == Tail(s)
  <1>1. /\ Len(s) \in Nat \ {0} /\ Head(s) = s[1] /\ t \in Seq(S) /\ s[1] \in S
        /\ Len(t) = Len(s) - 1 /\ \A i \in 1..Len(t) : t[i] = s[i + 1]
    OBVIOUS
  <1> HIDE DEF t
  <1>2. Head(s) \in Members(s)
    BY <1>1 DEF Members
  <1>3. ASSUME NEW x \in Members(t) PROVE x \in Members(s)
    <2>1. PICK i \in 1..Len(t) : x = t[i]
      BY DEF Members
    <2>2. i + 1 \in 1..Len(s) /\ x = s[i + 1]
      BY <1>1, <2>1
    <2> QED
      BY <2>2 DEF Members
  <1>4. ASSUME NEW x \in Members(s), x # Head(s) PROVE x \in Members(t)
    <2>1. PICK i \in 1..Len(s) : x = s[i]
      BY DEF Members
    <2>2. i - 1 \in 1..Len(t) /\ x = t[i - 1]
      BY <1>1, <1>4, <2>1
    <2> QED
      BY <2>2 DEF Members
  <1>5. Len(s) = 1 => Members(s) = {Head(s)}
    BY <1>1 DEF Members
  <1>6. Len(s) # 1 => t # <<>>
    BY <1>1
  <1> QED
    BY <1>1, <1>2, <1>3, <1>4, <1>5, <1>6 DEF t

\* A fix takes nothing back; if it changed the host, then what it is for; only the
\* installation of Docker changes what is installed.
LEMMA RepairedHost ==
  ASSUME HostTypeOK, NEW fix \in Fixes, NEW h \in Repaired(host, fix)
  PROVE  /\ h \in [supported : BOOLEAN, docker : {"missing", "stopped", "running"},
                   compose : BOOLEAN, systemd : BOOLEAN, dirs : [Dirs -> DirStates]]
         /\ h.supported = host.supported /\ h.systemd = host.systemd
         /\ \A d \in Dirs : /\ host.dirs[d] = "ok" => h.dirs[d] = "ok"
                            /\ h.dirs[d] # host.dirs[d] => h.dirs[d] = "ok" /\ fix = d
         /\ fix # "docker_install" => h.compose = host.compose
         /\ host.docker # "missing" => h.docker # "missing"
         /\ fix # "docker_install" /\ host.docker = "running" => h.docker = "running"
         /\ fix \notin {"docker_install", "systemd_start_docker"} => h.docker = host.docker
         /\ h # host => /\ fix = "docker_install" => h.docker # "missing"
                        /\ fix \in Dirs => h.dirs[fix] = "ok"
         /\ fix = "systemd_start_docker" => h.docker = "running"
  <1>1. fix \in Dirs \/ fix = "docker_install" \/ fix = "systemd_start_docker"
    BY DEF Fixes
  <1>2. CASE fix = "docker_install"
    <2>1. \/ h = host
          \/ \E d \in {"stopped", "running"} : h = [host EXCEPT !.docker = d, !.compose = TRUE]
      BY <1>2 DEF Repaired
    <2>2. "docker_install" \notin Dirs
      BY DEF Dirs
    <2>3. CASE h = host
      BY <1>2, <2>2, <2>3 DEF HostTypeOK
    <2>4. ASSUME NEW d \in {"stopped", "running"}, h = [host EXCEPT !.docker = d, !.compose = TRUE]
          PROVE  /\ h.supported = host.supported /\ h.systemd = host.systemd
                 /\ h.dirs = host.dirs /\ h.compose /\ h.docker = d
                 /\ h \in [supported : BOOLEAN, docker : {"missing", "stopped", "running"},
                           compose : BOOLEAN, systemd : BOOLEAN, dirs : [Dirs -> DirStates]]
      BY <2>4 DEF HostTypeOK
    <2>5. CASE h # host
      BY <1>2, <2>1, <2>2, <2>4, <2>5
    <2> QED
      BY <2>3, <2>5
  <1>3. CASE fix = "systemd_start_docker"
    BY <1>3 DEF Repaired, HostTypeOK, Dirs
  <1>4. CASE fix \in Dirs
    <2>1. fix # "docker_install" /\ fix # "systemd_start_docker"
      BY <1>4 DEF Dirs
    <2>2. h = [host EXCEPT !.dirs[fix] = "ok"] \/ h = [host EXCEPT !.dirs[fix] = @]
      BY <1>4, <2>1 DEF Repaired, Dirs
    <2>3. CASE h = [host EXCEPT !.dirs[fix] = "ok"]
      BY <1>4, <2>1, <2>3 DEF HostTypeOK, DirStates
    <2>4. CASE h = [host EXCEPT !.dirs[fix] = @]
      <3>1. h = host
        BY <1>4, <2>4 DEF HostTypeOK
      <3> QED
        BY <1>4, <2>1, <3>1 DEF HostTypeOK
    <2> QED
      BY <2>2, <2>3, <2>4
  <1> QED
    BY <1>1, <1>2, <1>3, <1>4

-----------------------------------------------------------------------------
(* Lemmas: what the steps keep of the host and of the runs counted.         *)

\* A step past the checks leaves the host alone; a run that ends there has found it passing.
LEMMA PastTheChecks ==
  ASSUME IInv, pc \notin Checking \union {"idle"}, UNCHANGED <<hostVars, runVars>>,
         \/ pc' \notin Checking \union {"idle"} /\ UNCHANGED clean
         \/ \E how \in {"ok", "failed", "killed"} : Return(how)
  PROVE  HostTypeOK' /\ CleanTypeOK' /\ HostInv' /\ RepairInv'
  <1> USE DEF IInv, hostVars, runVars
  <1>1. HostTypeOK'
    BY DEF HostTypeOK
  <1>2. clean.sofar => /\ host.supported /\ host.docker = "running" /\ host.compose
                       /\ \A d \in Dirs : host.dirs[d] = "ok"
    BY PassingHost DEF HostInv, RepairInv, CleanInv
  <1>3. CASE pc' \notin Checking \union {"idle"} /\ UNCHANGED clean
    <2>1. CleanTypeOK' /\ HostInv'
      BY <1>3 DEF CleanTypeOK, HostInv, Checking
    <2>2. CleanInv' /\ EnvInv' /\ TodoInv' /\ ProgressInv'
      BY <1>3 DEF RepairInv, CleanInv, EnvInv, TodoInv, ProgressInv, Repairable, Checking
    <2> QED
      BY <1>1, <2>1, <2>2 DEF RepairInv
  <1>4. ASSUME NEW how \in {"ok", "failed", "killed"}, Return(how)
        PROVE  CleanTypeOK' /\ HostInv' /\ RepairInv'
    <2>1. /\ pc' = "idle" /\ clean'.sofar = FALSE
          /\ \/ clean'.runs = clean.runs
             \/ clean'.runs = clean.runs + 1 /\ clean.sofar
          /\ clean' = [runs |-> clean'.runs, sofar |-> FALSE]
      BY <1>4 DEF Return, CleanTypeOK
    <2>2. /\ clean.runs \in 0..MaxRuns /\ runs \in 0..MaxRuns
          /\ clean.runs + (IF clean.sofar THEN 1 ELSE 0) <= runs
      BY DEF CleanTypeOK, RunTypeOK, RepairInv, CleanInv
    <2>3. clean'.runs \in 0..MaxRuns /\ clean'.runs <= runs
      BY <2>1, <2>2, BoundsAssumption
    <2>4. CleanTypeOK' /\ HostInv'
      BY <2>1, <2>3 DEF CleanTypeOK, HostInv
    <2>5. CleanInv'
      BY <2>1, <2>3, <2>4 DEF CleanInv, CleanTypeOK
    <2>6. EnvInv' /\ TodoInv'
      BY <2>1 DEF EnvInv, TodoInv, Checking
    <2>7. ProgressInv'
      BY <1>2, <2>1, <2>2 DEF ProgressInv, RepairInv, Repairable
    <2> QED
      BY <2>4, <2>5, <2>6, <2>7 DEF RepairInv
  <1> QED
    BY <1>1, <1>3, <1>4

-----------------------------------------------------------------------------
(* Lemmas: the steps.                                                       *)

\* The ports are free or the run ends.
LEMMA PortScanInv ==
  ASSUME IInv, PortScan
  PROVE  IInv'
  <1> USE DEF IInv, PortScan, runVars
  <1>1. HostTypeOK' /\ CleanTypeOK' /\ HostInv' /\ RepairInv'
    <2>1. pc \notin Checking \union {"idle"} /\ UNCHANGED <<hostVars, runVars>>
      BY DEF Checking, hostVars
    <2>2. \/ pc' \notin Checking \union {"idle"} /\ UNCHANGED clean
          \/ \E how \in {"ok", "failed", "killed"} : Return(how)
      BY DEF Continue, AfterFiles, Checking
    <2> QED
      BY <2>1, <2>2, PastTheChecks
  <1>2. RunTypeOK'
    BY BoundsAssumption DEF RunTypeOK, Steps, Continue, Return, AfterFiles
  <1>3. DiskTypeOK'
    BY DEF DiskTypeOK, RunTypeOK, FileStates
  <1>4. ModeInv'
    BY DEF ModeInv, Continue, Return, AfterFiles, Checking, Writing
  <1>5. FilesInv' /\ ServedInv'
    BY DEF FilesInv, ServedInv, Resolved, ModeInv, RunTypeOK, DiskTypeOK, Continue, Return,
           AfterFiles, Writing
  <1> QED
    BY <1>1, <1>2, <1>3, <1>4, <1>5

\* The temporary file is not the one that the services read.
LEMMA WriteEnvTmpInv ==
  ASSUME IInv, WriteEnvTmp
  PROVE  IInv'
  <1> USE DEF IInv, WriteEnvTmp, runVars
  <1>1. HostTypeOK' /\ CleanTypeOK' /\ HostInv' /\ RepairInv'
    <2>1. pc \notin Checking \union {"idle"} /\ UNCHANGED <<hostVars, runVars>>
      BY DEF Checking, hostVars
    <2>2. \/ pc' \notin Checking \union {"idle"} /\ UNCHANGED clean
          \/ \E how \in {"ok", "failed", "killed"} : Return(how)
      BY DEF Continue, AfterFiles, Checking
    <2> QED
      BY <2>1, <2>2, PastTheChecks
  <1>2. RunTypeOK'
    BY BoundsAssumption DEF RunTypeOK, Steps, Continue, Return, AfterFiles
  <1>3. DiskTypeOK'
    BY DEF DiskTypeOK, RunTypeOK, FileStates
  <1>4. ModeInv'
    BY DEF ModeInv, Continue, Return, AfterFiles, Checking, Writing
  <1>5. FilesInv' /\ ServedInv'
    BY DEF FilesInv, ServedInv, Resolved, ModeInv, RunTypeOK, DiskTypeOK, Continue, Return,
           AfterFiles, Writing
  <1> QED
    BY <1>1, <1>2, <1>3, <1>4, <1>5

\* The environment file is the one of this run.
LEMMA RenameEnvInv ==
  ASSUME IInv, RenameEnv
  PROVE  IInv'
  <1> USE DEF IInv, RenameEnv, runVars
  <1>1. HostTypeOK' /\ CleanTypeOK' /\ HostInv' /\ RepairInv'
    <2>1. pc \notin Checking \union {"idle"} /\ UNCHANGED <<hostVars, runVars>>
      BY DEF Checking, hostVars
    <2>2. \/ pc' \notin Checking \union {"idle"} /\ UNCHANGED clean
          \/ \E how \in {"ok", "failed", "killed"} : Return(how)
      BY DEF Continue, AfterFiles, Checking
    <2> QED
      BY <2>1, <2>2, PastTheChecks
  <1>2. RunTypeOK'
    BY BoundsAssumption DEF RunTypeOK, Steps, Continue, Return, AfterFiles
  <1>3. DiskTypeOK'
    BY DEF DiskTypeOK, RunTypeOK, FileStates
  <1>4. ModeInv'
    BY DEF ModeInv, Continue, Return, AfterFiles, Checking, Writing
  <1>5. CASE /\ pc' = "compose" /\ files' = [files EXCEPT !.env = runs, !.tmp = "absent"]
             /\ UNCHANGED <<result, clean>>
    <2>1. runs # 0 /\ files'.env = runs /\ files'.compose = files.compose /\ mode = "install"
      BY <1>5 DEF ModeInv, Writing, DiskTypeOK, RunTypeOK
    <2>2. FilesInv' /\ ServedInv'
      BY <1>5, <2>1 DEF FilesInv, ServedInv, Resolved
    <2> QED
      BY <1>1, <1>2, <1>3, <1>4, <2>2
  <1>6. CASE Return("failed") /\ files' = [files EXCEPT !.tmp = "absent"]
    <2>1. /\ files'.env = files.env /\ files'.compose = files.compose
          /\ pc' = "idle" /\ result' = "failed"
      BY <1>6 DEF Return, DiskTypeOK
    <2>2. FilesInv' /\ ServedInv'
      BY <2>1 DEF FilesInv, ServedInv, Resolved
    <2> QED
      BY <1>1, <1>2, <1>3, <1>4, <2>2
  <1> QED
    BY <1>5, <1>6 DEF Continue

\* The compose file is whole, or the run ends.
LEMMA WriteComposeInv ==
  ASSUME IInv, WriteCompose
  PROVE  IInv'
  <1> USE DEF IInv, WriteCompose, runVars
  <1>1. HostTypeOK' /\ CleanTypeOK' /\ HostInv' /\ RepairInv'
    <2>1. pc \notin Checking \union {"idle"} /\ UNCHANGED <<hostVars, runVars>>
      BY DEF Checking, hostVars
    <2>2. \/ pc' \notin Checking \union {"idle"} /\ UNCHANGED clean
          \/ \E how \in {"ok", "failed", "killed"} : Return(how)
      BY DEF Continue, AfterFiles, Checking
    <2> QED
      BY <2>1, <2>2, PastTheChecks
  <1>2. RunTypeOK'
    BY BoundsAssumption DEF RunTypeOK, Steps, Continue, Return, AfterFiles
  <1>3. DiskTypeOK'
    BY DEF DiskTypeOK, RunTypeOK, FileStates
  <1>4. ModeInv'
    BY DEF ModeInv, Continue, Return, AfterFiles, Checking, Writing
  <1>5. FilesInv' /\ ServedInv'
    BY DEF FilesInv, ServedInv, Resolved, ModeInv, RunTypeOK, DiskTypeOK, Continue, Return,
           AfterFiles, Writing
  <1> QED
    BY <1>1, <1>2, <1>3, <1>4, <1>5

\* So is the one for the GPU.
LEMMA WriteGPUInv ==
  ASSUME IInv, WriteGPU
  PROVE  IInv'
  <1> USE DEF IInv, WriteGPU, runVars
  <1>1. HostTypeOK' /\ CleanTypeOK' /\ HostInv' /\ RepairInv'
    <2>1. pc \notin Checking \union {"idle"} /\ UNCHANGED <<hostVars, runVars>>
      BY DEF Checking, hostVars
    <2>2. \/ pc' \notin Checking \union {"idle"} /\ UNCHANGED clean
          \/ \E how \in {"ok", "failed", "killed"} : Return(how)
      BY DEF Continue, AfterFiles, Checking
    <2> QED
      BY <2>1, <2>2, PastTheChecks
  <1>2. RunTypeOK'
    BY BoundsAssumption DEF RunTypeOK, Steps, Continue, Return, AfterFiles
  <1>3. DiskTypeOK'
    BY DEF DiskTypeOK, RunTypeOK, FileStates
  <1>4. ModeInv'
    BY DEF ModeInv, Continue, Return, AfterFiles, Checking, Writing
  <1>5. FilesInv' /\ ServedInv'
    BY DEF FilesInv, ServedInv, Resolved, ModeInv, RunTypeOK, DiskTypeOK, Continue, Return,
           AfterFiles, Writing
  <1> QED
    BY <1>1, <1>2, <1>3, <1>4, <1>5

\* A pull changes nothing but the images.
LEMMA PullInv ==
  ASSUME IInv, Pull
  PROVE  IInv'
  <1> USE DEF IInv, Pull, runVars
  <1>1. HostTypeOK' /\ CleanTypeOK' /\ HostInv' /\ RepairInv'
    <2>1. pc \notin Checking \union {"idle"} /\ UNCHANGED <<hostVars, runVars>>
      BY DEF Checking, hostVars
    <2>2. \/ pc' \notin Checking \union {"idle"} /\ UNCHANGED clean
          \/ \E how \in {"ok", "failed", "killed"} : Return(how)
      BY DEF Continue, AfterFiles, Checking
    <2> QED
      BY <2>1, <2>2, PastTheChecks
  <1>2. RunTypeOK'
    BY BoundsAssumption DEF RunTypeOK, Steps, Continue, Return, AfterFiles
  <1>3. DiskTypeOK'
    BY DEF DiskTypeOK, RunTypeOK, FileStates
  <1>4. ModeInv'
    BY DEF ModeInv, Continue, Return, AfterFiles, Checking, Writing
  <1>5. FilesInv' /\ ServedInv'
    BY DEF FilesInv, ServedInv, Resolved, ModeInv, RunTypeOK, DiskTypeOK, Continue, Return,
           AfterFiles, Writing
  <1> QED
    BY <1>1, <1>2, <1>3, <1>4, <1>5

\* Polling changes nothing but the time.
LEMMA VerifyInv ==
  ASSUME IInv, Verify
  PROVE  IInv'
  <1> USE DEF IInv, Verify, runVars
  <1>1. HostTypeOK' /\ CleanTypeOK' /\ HostInv' /\ RepairInv'
    <2>1. pc \notin Checking \union {"idle"} /\ UNCHANGED <<hostVars, runVars>>
      BY DEF Checking, hostVars
    <2>2. \/ pc' \notin Checking \union {"idle"} /\ UNCHANGED clean
          \/ \E how \in {"ok", "failed", "killed"} : Return(how)
      BY DEF Continue, AfterFiles, Checking
    <2> QED
      BY <2>1, <2>2, PastTheChecks
  <1>2. RunTypeOK'
    BY BoundsAssumption DEF RunTypeOK, Steps, Continue, Return, AfterFiles
  <1>3. DiskTypeOK'
    BY DEF DiskTypeOK, RunTypeOK, FileStates
  <1>4. ModeInv'
    BY DEF ModeInv, Continue, Return, AfterFiles, Checking, Writing
  <1>5. FilesInv' /\ ServedInv'
    BY DEF FilesInv, ServedInv, Resolved, ModeInv, RunTypeOK, DiskTypeOK, Continue, Return,
           AfterFiles, Writing
  <1> QED
    BY <1>1, <1>2, <1>3, <1>4, <1>5

\* Containers that are started, by an installation or an update, serve its files.
LEMMA StartedFacts ==
  ASSUME IInv, NEW started \in SUBSET Services, Start(started), UNCHANGED files, Resolved
  PROVE  DiskTypeOK' /\ ServedInv'
  <1>1. services' \in [Services -> ServiceStates] /\ volume' \in 0..MaxRuns
    BY DEF IInv, DiskTypeOK, ServiceStates, Start
  <1> QED
    BY <1>1 DEF IInv, DiskTypeOK, ServedInv, Resolved

\* Containers that are started again existed before.
LEMMA RestartedFacts ==
  ASSUME IInv, NEW some \in SUBSET Services, Restarted(some), UNCHANGED <<files, volume>>
  PROVE  DiskTypeOK' /\ ServedInv'
  <1>1. services' \in [Services -> ServiceStates]
    BY DEF IInv, DiskTypeOK, ServiceStates, Restarted
  <1>2. \A s \in Services : services'[s] # "absent" => services[s] # "absent"
    BY DEF Restarted
  <1> QED
    BY <1>1, <1>2 DEF IInv, DiskTypeOK, ServedInv, Resolved

\* Who deploys has the files.
LEMMA DeploysResolved ==
  ASSUME IInv, pc = "up"
  PROVE  Resolved
  BY DEF IInv, FilesInv, Resolved, ModeInv, RunTypeOK, DiskTypeOK

\* All containers are started, or some before it fails.
LEMMA UpInv ==
  ASSUME IInv, Up
  PROVE  IInv'
  <1> USE DEF IInv, Up, runVars
  <1>1. HostTypeOK' /\ CleanTypeOK' /\ HostInv' /\ RepairInv'
    <2>1. pc \notin Checking \union {"idle"} /\ UNCHANGED <<hostVars, runVars>>
      BY DEF Checking, hostVars
    <2>2. \/ pc' \notin Checking \union {"idle"} /\ UNCHANGED clean
          \/ \E how \in {"ok", "failed", "killed"} : Return(how)
      BY DEF Continue, AfterFiles, Checking
    <2> QED
      BY <2>1, <2>2, PastTheChecks
  <1>2. RunTypeOK'
    BY BoundsAssumption DEF RunTypeOK, Steps, Continue, Return, AfterFiles
  <1>3. DiskTypeOK' /\ ServedInv'
    <2>1. PICK started \in SUBSET Services : Start(started)
      BY ServicesAssumption DEF Declared
    <2> QED
      BY <2>1, DeploysResolved, StartedFacts
  <1>4. ModeInv'
    BY DEF ModeInv, Continue, Return, AfterFiles, Checking, Writing
  <1>5. FilesInv'
    BY DEF FilesInv, Resolved, ModeInv, RunTypeOK, DiskTypeOK, Continue, Return,
           AfterFiles, Writing
  <1> QED
    BY <1>1, <1>2, <1>3, <1>4, <1>5

\* All containers are started again, or some before it fails.
LEMMA RestartInv ==
  ASSUME IInv, Restart
  PROVE  IInv'
  <1> USE DEF IInv, Restart, runVars
  <1>1. HostTypeOK' /\ CleanTypeOK' /\ HostInv' /\ RepairInv'
    <2>1. pc \notin Checking \union {"idle"} /\ UNCHANGED <<hostVars, runVars>>
      BY DEF Checking, hostVars
    <2>2. \/ pc' \notin Checking \union {"idle"} /\ UNCHANGED clean
          \/ \E how \in {"ok", "failed", "killed"} : Return(how)
      BY DEF Continue, AfterFiles, Checking
    <2> QED
      BY <2>1, <2>2, PastTheChecks
  <1>2. RunTypeOK'
    BY BoundsAssumption DEF RunTypeOK, Steps, Continue, Return, AfterFiles
  <1>3. DiskTypeOK' /\ ServedInv'
    <2>1. PICK some \in SUBSET Services : Restarted(some)
      BY ServicesAssumption DEF Declared
    <2> QED
      BY <2>1, RestartedFacts
  <1>4. ModeInv'
    BY DEF ModeInv, Continue, Return, AfterFiles, Checking, Writing
  <1>5. FilesInv'
    BY DEF FilesInv, Resolved, ModeInv, RunTypeOK, DiskTypeOK, Continue, Return,
           AfterFiles, Writing
  <1> QED
    BY <1>1, <1>2, <1>3, <1>4, <1>5

\* ServiceStep needs a container that exists.
LEMMA ServiceStepInv ==
  ASSUME IInv, ServiceStep
  PROVE  IInv'
  <1> USE DEF IInv, runVars, hostVars
  <1>1. /\ UNCHANGED <<pc, mode, cfg, runs, env, host, todo, files, volume, polls, result, clean>>
        /\ services' \in [Services -> ServiceStates]
        /\ \A s \in Services : services'[s] # "absent" => services[s] # "absent"
    BY DEF ServiceStep, DiskTypeOK, ServiceStates
  <1>2. RunTypeOK' /\ HostTypeOK' /\ DiskTypeOK' /\ CleanTypeOK'
    BY <1>1 DEF RunTypeOK, HostTypeOK, DiskTypeOK, CleanTypeOK
  <1>3. ModeInv' /\ HostInv' /\ FilesInv' /\ ServedInv'
    BY <1>1 DEF ModeInv, HostInv, FilesInv, ServedInv, Resolved
  <1>4. RepairInv'
    BY <1>1 DEF RepairInv, CleanInv, EnvInv, TodoInv, Todo, ProgressInv, Repairable
  <1> QED
    BY <1>2, <1>3, <1>4

\* A new process looks at the host again.
LEMMA StartInstallInv ==
  ASSUME IInv, StartInstall
  PROVE  IInv'
  <1> USE DEF IInv
  <1>1. /\ pc = "idle" /\ pc' = "preflight" /\ mode' = "install" /\ runs' = runs + 1
        /\ runs + 1 \in 1..MaxRuns /\ result' = "none" /\ env' = Detect(host)
        /\ UNCHANGED <<host, todo, files, volume, services, polls>>
        /\ cfg' \in [accept : BOOLEAN, deploy : BOOLEAN, pull : BOOLEAN]
        /\ clean' = [clean EXCEPT !.sofar = cfg'.accept]
    BY BoundsAssumption DEF StartInstall, RunTypeOK
  <1>2. RunTypeOK' /\ HostTypeOK' /\ DiskTypeOK' /\ CleanTypeOK'
    BY <1>1 DEF RunTypeOK, HostTypeOK, DiskTypeOK, CleanTypeOK, Steps, Detect
  <1>3. ModeInv' /\ HostInv' /\ FilesInv' /\ ServedInv'
    BY <1>1 DEF ModeInv, HostInv, FilesInv, ServedInv, Resolved, RunTypeOK, Checking, Writing
  <1>4. /\ clean'.runs = clean.runs /\ clean'.sofar \in BOOLEAN /\ ~clean.sofar
        /\ clean.runs \in Nat /\ runs \in Nat
    BY <1>1 DEF CleanTypeOK, RepairInv, CleanInv, RunTypeOK
  <1>5. CleanInv'
    BY <1>1, <1>4 DEF RepairInv, CleanInv, CleanTypeOK
  <1>6. EnvInv' /\ TodoInv' /\ ProgressInv'
    BY <1>1, <1>4 DEF RepairInv, EnvInv, TodoInv, ProgressInv, Repairable, Detect, HostTypeOK
  <1> QED
    BY <1>2, <1>3, <1>5, <1>6 DEF RepairInv

\* An update or a restart runs on an installation, or not at all.
LEMMA StartCommandInv ==
  ASSUME IInv, NEW command \in {"update", "restart"}, NEW step,
         command = "update" => step = "pull", command = "restart" => step = "restart",
         StartCommand(command, step)
  PROVE  IInv'
  <1> USE DEF IInv
  <1>1. /\ pc = "idle" /\ mode' = command /\ runs' = runs + 1 /\ runs + 1 \in 1..MaxRuns
        /\ UNCHANGED <<cfg, env, host, todo, files, volume, services, polls>>
        /\ \/ Resolved /\ pc' = step /\ UNCHANGED result
           \/ pc' = "idle" /\ result' = "failed"
    BY BoundsAssumption DEF StartCommand, RunTypeOK, Continue, Return, hostVars
  <1>2. clean' = clean
    BY DEF StartCommand, Continue, Return, RepairInv, CleanInv, CleanTypeOK
  <1>3. RunTypeOK' /\ HostTypeOK' /\ DiskTypeOK' /\ CleanTypeOK'
    BY <1>1, <1>2 DEF RunTypeOK, HostTypeOK, DiskTypeOK, CleanTypeOK, Steps
  <1>4. ModeInv' /\ HostInv' /\ FilesInv' /\ ServedInv'
    BY <1>1 DEF ModeInv, HostInv, FilesInv, ServedInv, Resolved, RunTypeOK, Checking, Writing
  <1>5. CleanInv'
    BY <1>1, <1>2 DEF RepairInv, CleanInv, RunTypeOK, CleanTypeOK
  <1>6. EnvInv' /\ TodoInv' /\ ProgressInv'
    BY <1>1, <1>2 DEF RepairInv, EnvInv, TodoInv, ProgressInv, Repairable, Checking
  <1> QED
    BY <1>3, <1>4, <1>5, <1>6 DEF RepairInv

-----------------------------------------------------------------------------
(* Lemmas: the checks.                                                      *)

\* A fix that is tried, whatever it has done, takes nothing back.
LEMMA AttemptedHost ==
  ASSUME IInv, pc = "fix", NEW h \in Attempted(host, Head(todo))
  PROVE  /\ h \in [supported : BOOLEAN, docker : {"missing", "stopped", "running"},
                   compose : BOOLEAN, systemd : BOOLEAN, dirs : [Dirs -> DirStates]]
         /\ h.supported = host.supported /\ h.systemd = host.systemd
         /\ \A d \in Dirs : host.dirs[d] = "ok" => h.dirs[d] = "ok"
         /\ host.docker # "missing" => h.docker # "missing"
         /\ env.docker => h.compose = host.compose
         /\ env.docker /\ host.docker = "running" => h.docker = "running"
  <1>1. Head(todo) \in Fixes /\ Head(todo) \in Todo
    BY MembersOfTail DEF IInv, HostTypeOK, HostInv, Todo
  <1>2. env.docker => Head(todo) # "docker_install"
    BY <1>1 DEF IInv, RepairInv, TodoInv
  <1>3. CASE h = host
    BY <1>3 DEF IInv, HostTypeOK
  <1>4. CASE h \in Repaired(host, Head(todo))
    BY <1>1, <1>2, <1>4, RepairedHost DEF IInv
  <1> QED
    BY <1>3, <1>4 DEF Attempted

\* A run that ends before it is past the checks, and does not count.
LEMMA GivesUp ==
  ASSUME IInv, pc \in Checking, pc' = "idle", result' \in {"failed", "killed"},
         clean' = [clean EXCEPT !.sofar = FALSE],
         \/ pc = "fix" /\ host' \in Attempted(host, Head(todo))
         \/ UNCHANGED host,
         todo' \in Seq(Fixes), UNCHANGED <<env, mode, runs, cfg, files, volume, services, polls>>
  PROVE  IInv'
  <1> USE DEF IInv
  <1>1. /\ host' \in [supported : BOOLEAN, docker : {"missing", "stopped", "running"},
                      compose : BOOLEAN, systemd : BOOLEAN, dirs : [Dirs -> DirStates]]
        /\ host'.supported = host.supported /\ host'.systemd = host.systemd
        /\ \A d \in Dirs : host.dirs[d] = "ok" => host'.dirs[d] = "ok"
        /\ host.docker # "missing" => host'.docker # "missing"
        /\ env.docker => host'.compose = host.compose
        /\ env.docker /\ host.docker = "running" => host'.docker = "running"
    <2>1. CASE UNCHANGED host
      BY <2>1 DEF HostTypeOK
    <2>2. CASE pc = "fix" /\ host' \in Attempted(host, Head(todo))
      BY <2>2, AttemptedHost
    <2> QED
      BY <2>1, <2>2
  <1>2. RunTypeOK' /\ HostTypeOK' /\ DiskTypeOK' /\ CleanTypeOK'
    BY <1>1 DEF RunTypeOK, HostTypeOK, DiskTypeOK, CleanTypeOK
  <1>3. ModeInv' /\ HostInv' /\ FilesInv' /\ ServedInv'
    BY DEF ModeInv, HostInv, FilesInv, ServedInv, Resolved, Checking, Writing
  <1>4. clean'.runs = clean.runs /\ ~clean'.sofar /\ clean.runs \in Nat /\ runs \in Nat
    BY DEF CleanTypeOK, RunTypeOK
  <1>5. CleanInv'
    BY <1>4 DEF RepairInv, CleanInv, CleanTypeOK
  <1>6. EnvInv' /\ TodoInv'
    BY DEF EnvInv, TodoInv, Checking
  <1>7. ProgressInv'
    BY <1>1, <1>4 DEF RepairInv, EnvInv, ProgressInv, Repairable
  <1> QED
    BY <1>2, <1>3, <1>5, <1>6, <1>7 DEF RepairInv

\* A run that ends there and counts has left the host as a run that counts leaves it.
LEMMA EndsCounted ==
  ASSUME IInv, pc \in {"preflight", "recheck"}, clean.sofar, Return("failed"),
         Repairable => /\ host.docker # "missing"
                       /\ host.compose => \A d \in Dirs : host.dirs[d] = "ok"
                       /\ clean.runs >= 1 /\ host.compose => host.docker = "running",
         UNCHANGED <<runVars, hostVars, files, volume, services, polls>>
  PROVE  IInv'
  <1> USE DEF IInv, runVars, hostVars
  <1>1. /\ pc' = "idle" /\ result' = "failed"
        /\ clean' = [runs |-> clean.runs + 1, sofar |-> FALSE]
    BY DEF Return
  <1>2. clean.runs + 1 \in 0..MaxRuns /\ clean.runs + 1 <= runs
    BY BoundsAssumption DEF CleanTypeOK, RunTypeOK, RepairInv, CleanInv
  <1>3. RunTypeOK' /\ HostTypeOK' /\ DiskTypeOK' /\ CleanTypeOK'
    BY <1>1, <1>2 DEF RunTypeOK, HostTypeOK, DiskTypeOK, CleanTypeOK
  <1>4. ModeInv' /\ HostInv' /\ FilesInv' /\ ServedInv'
    BY <1>1 DEF ModeInv, HostInv, FilesInv, ServedInv, Resolved, Checking, Writing
  <1>5. CleanInv'
    BY <1>1, <1>2 DEF CleanInv
  <1>6. EnvInv' /\ TodoInv'
    BY <1>1 DEF EnvInv, TodoInv, Checking
  <1>7. ProgressInv'
    BY <1>1, <1>2 DEF ProgressInv, Repairable, CleanTypeOK
  <1> QED
    BY <1>3, <1>4, <1>5, <1>6, <1>7 DEF RepairInv

\* A run that has found the host passing goes on.
LEMMA Passes ==
  ASSUME IInv, pc \in {"preflight", "recheck"}, Failing(host) = {}, Continue("portscan"),
         UNCHANGED <<runVars, hostVars, files, volume, services, polls>>
  PROVE  IInv'
  <1> USE DEF IInv, runVars, hostVars, Continue
  <1>1. RunTypeOK' /\ HostTypeOK' /\ DiskTypeOK' /\ CleanTypeOK'
    BY DEF RunTypeOK, HostTypeOK, DiskTypeOK, CleanTypeOK, Steps
  <1>2. ModeInv' /\ HostInv' /\ FilesInv' /\ ServedInv'
    BY DEF ModeInv, HostInv, FilesInv, ServedInv, Resolved, Checking, Writing
  <1>3. RepairInv'
    BY DEF RepairInv, CleanInv, EnvInv, TodoInv, ProgressInv, Repairable, Checking
  <1> QED
    BY <1>1, <1>2, <1>3

\* Who is refused by the first preflight has an old Docker without compose, or a system that
\* the fixes cannot repair.
LEMMA RefusedHost ==
  ASSUME IInv, pc = "preflight", Repairable, Failing(host) # {},
         NonFixable(Failing(host), env) # {} \/ Fixable(Failing(host), env) = <<>>
  PROVE  host.docker # "missing" /\ ~host.compose
  <1> USE DEF IInv, RepairInv
  <1>1. /\ env \in [docker : BOOLEAN, systemd : BOOLEAN]
        /\ env.systemd
        /\ env.docker => host.docker # "missing"
        /\ ~env.docker => host.docker = "missing"
        /\ host.supported /\ host.systemd
    BY DEF HostTypeOK, EnvInv, Checking, Repairable
  <1>2. ASSUME NonFixable(Failing(host), env) # {} PROVE env.docker /\ ~host.compose
    <2>1. PICK c \in NonFixable(Failing(host), env) : TRUE
      BY <1>2
    <2>2. c \in Failing(host) /\ c = "compose_version" /\ env.docker
      <3>1. "platform" \notin Failing(host)
        BY <1>1 DEF Failing, Dirs
      <3> QED
        BY <1>1, <2>1, <3>1 DEF NonFixable
    <2>3. host.docker = "missing" \/ ~host.compose
      BY <1>1, <2>2 DEF Failing, Dirs
    <2> QED
      BY <1>1, <2>2, <2>3
  <1>3. ASSUME Fixable(Failing(host), env) = <<>>, NonFixable(Failing(host), env) = {} PROVE FALSE
    <2>1. Members(Fixable(Failing(host), env)) = {}
      BY <1>3 DEF Members
    <2>2. PICK c \in Failing(host) : TRUE
      OBVIOUS
    <2>3. c \notin Dirs
      BY <1>1, <2>1, <2>2, PlannedFixes
    <2>4. "docker_daemon" \notin Failing(host)
      <3>1. ASSUME "docker_daemon" \in Failing(host), ~env.docker
            PROVE  "docker_install" \in Members(Fixable(Failing(host), env))
        BY <1>1, <3>1, PlannedFixes
      <3>2. ASSUME "docker_daemon" \in Failing(host), env.docker
            PROVE  "systemd_start_docker" \in Members(Fixable(Failing(host), env))
        BY <1>1, <3>2, PlannedFixes
      <3> QED
        BY <2>1, <3>1, <3>2
    <2>5. c = "compose_version" /\ env.docker
      <3>1. c = "compose_version"
        BY <1>1, <2>2, <2>3, <2>4 DEF Failing
      <3>2. host.docker = "running"
        BY <1>1, <2>4 DEF Failing
      <3> QED
        BY <1>1, <3>1, <3>2
    <2>6. c \in NonFixable(Failing(host), env)
      BY <2>2, <2>5 DEF NonFixable
    <2> QED
      BY <1>3, <2>6
  <1> QED
    BY <1>1, <1>2, <1>3

\* The first preflight plans a fix for every failure.
LEMMA PreflightInv ==
  ASSUME IInv, Preflight
  PROVE  IInv'
  <1> DEFINE failing == Failing(host)
             fixable == Fixable(failing, env)
  <1>1. /\ pc = "preflight"
        /\ \/ failing = {} /\ Continue("portscan") /\ UNCHANGED todo
           \/ /\ failing # {}
              /\ NonFixable(failing, env) # {} \/ fixable = <<>> \/ ~cfg.accept
              /\ Return("failed") /\ UNCHANGED todo
           \/ /\ NonFixable(failing, env) = {} /\ fixable # <<>> /\ cfg.accept
              /\ Continue("fix") /\ todo' = fixable
        /\ UNCHANGED <<runVars, env, host, files, volume, services, polls>>
    BY DEF Preflight
  <1>2. CASE failing = {} /\ Continue("portscan") /\ UNCHANGED todo
    BY <1>1, <1>2, Passes DEF hostVars
  <1>3. CASE /\ failing # {}
             /\ NonFixable(failing, env) # {} \/ fixable = <<>> \/ ~cfg.accept
             /\ Return("failed") /\ UNCHANGED todo
    <2>1. CASE ~clean.sofar
      <3>1. clean' = [clean EXCEPT !.sofar = FALSE] /\ pc' = "idle" /\ result' = "failed"
        BY <1>3, <2>1 DEF Return
      <3>2. todo' \in Seq(Fixes) /\ pc \in Checking /\ UNCHANGED <<mode, cfg, runs>>
        BY <1>1, <1>3 DEF IInv, HostTypeOK, Checking, runVars
      <3> QED
        BY <1>1, <3>1, <3>2, GivesUp
    <2>2. CASE clean.sofar
      <3>1. cfg.accept
        BY <1>1, <2>2 DEF IInv, RepairInv, CleanInv
      <3>2. Repairable => host.docker # "missing" /\ ~host.compose
        BY <1>1, <1>3, <3>1, RefusedHost
      <3> QED
        BY <1>1, <1>3, <2>2, <3>2, EndsCounted DEF hostVars
    <2> QED
      BY <2>1, <2>2
  <1>4. CASE /\ NonFixable(failing, env) = {} /\ fixable # <<>> /\ cfg.accept
             /\ Continue("fix") /\ todo' = fixable
    <2> USE DEF IInv, runVars
    <2>1. env \in [docker : BOOLEAN, systemd : BOOLEAN]
      BY DEF HostTypeOK
    <2>2. /\ todo' \in Seq(Fixes)
          /\ (Todo)' = {f \in {"docker_install"} : "docker_daemon" \in failing /\ ~env.docker}
                     \union {d \in Dirs : d \in failing}
                     \union {f \in {"systemd_start_docker"} :
                                 "docker_daemon" \in failing /\ env.docker /\ env.systemd}
      <3>1. /\ fixable \in Seq(Fixes)
            /\ Members(fixable) =
                   {f \in {"docker_install"} : "docker_daemon" \in failing /\ ~env.docker}
                   \union {d \in Dirs : d \in failing}
                   \union {f \in {"systemd_start_docker"} :
                               "docker_daemon" \in failing /\ env.docker /\ env.systemd}
        BY <2>1, PlannedFixes
      <3> HIDE DEF failing, fixable
      <3>2. (Todo)' = Members(fixable)
        BY <1>4 DEF Todo, Members
      <3> QED
        BY <1>4, <3>1, <3>2
    <2>3. /\ pc' = "fix" /\ todo' # <<>> /\ UNCHANGED <<mode, cfg, runs, result, clean>>
          /\ UNCHANGED <<env, host, files, volume, services, polls>>
      BY <1>1, <1>4 DEF Continue
    <2> HIDE DEF failing, fixable
    <2>4. RunTypeOK' /\ HostTypeOK' /\ DiskTypeOK' /\ CleanTypeOK'
      BY <2>2, <2>3 DEF RunTypeOK, HostTypeOK, DiskTypeOK, CleanTypeOK, Steps
    <2>5. ModeInv' /\ HostInv' /\ FilesInv' /\ ServedInv'
      BY <1>1, <2>3 DEF ModeInv, HostInv, FilesInv, ServedInv, Resolved, Checking, Writing
    <2>6. CleanInv' /\ ProgressInv' /\ EnvInv'
      BY <1>1, <2>3 DEF RepairInv, CleanInv, ProgressInv, EnvInv, Repairable, Checking
    <2>7. TodoInv'
      <3>1. "docker_install" \in Todo' => ~env.docker
        BY <2>2 DEF Dirs
      <3>2. host.supported
        <4>1. ~host.supported => "platform" \in failing
          BY DEF failing, Failing
        <4>2. "platform" \notin failing
          BY <1>4 DEF NonFixable
        <4> QED
          BY <4>1, <4>2
      <3>3. \A d \in Dirs : host.dirs[d] # "ok" => d \in Todo'
        BY <2>2, <3>2 DEF failing, Failing
      <3>4. host.docker # "running" => "docker_daemon" \in failing
        BY <3>2 DEF failing, Failing
      <3>5. host.docker = "missing" => "docker_install" \in Todo'
        <4>1. host.docker = "missing" => ~env.docker
          BY <1>1 DEF RepairInv, EnvInv, Checking
        <4> QED
          BY <2>2, <3>4, <4>1
      <3>6. env.docker /\ host.docker = "stopped" => "systemd_start_docker" \in Todo'
        <4>1. "docker_daemon" \in failing /\ env.docker => env.systemd
          BY <1>4 DEF NonFixable
        <4> QED
          BY <2>2, <3>4, <4>1
      <3> QED
        BY <2>3, <3>1, <3>3, <3>5, <3>6 DEF TodoInv
    <2> QED
      BY <2>4, <2>5, <2>6, <2>7 DEF RepairInv
  <1> QED
    BY <1>1, <1>2, <1>3, <1>4

\* A fix that worked had an effect on what it is for, or the run does not count.
LEMMA RunFixInv ==
  ASSUME IInv, RunFix
  PROVE  IInv'
  <1> DEFINE fix == Head(todo)
  <1>1. /\ fix \in Fixes /\ fix \in Todo /\ todo' = Tail(todo) /\ todo' \in Seq(Fixes)
        /\ \A f \in Todo : f # fix => f \in Todo'
        /\ \A f \in Todo' : f \in Todo
        /\ Len(todo) = 1 => Todo = {fix}
        /\ Len(todo) # 1 => todo' # <<>>
        /\ pc = "fix"
    <2>1. pc = "fix" /\ todo' = Tail(todo) /\ todo \in Seq(Fixes) /\ todo # <<>>
      BY DEF IInv, HostTypeOK, HostInv, RunFix
    <2>2. (Todo)' = Members(Tail(todo))
      BY <2>1 DEF Todo, Members
    <2> QED
      BY <2>1, <2>2, MembersOfTail DEF Todo
  <1>2. UNCHANGED <<mode, cfg, runs, env, files, volume, services, polls>>
    BY DEF RunFix, runVars
  <1>3. CASE /\ pc' = "idle" /\ result' = "failed" /\ clean' = [clean EXCEPT !.sofar = FALSE]
             /\ host' \in Attempted(host, fix)
    <2>1. pc \in Checking
      BY <1>1 DEF Checking
    <2> QED
      BY <1>1, <1>2, <1>3, <2>1, GivesUp
  <1>4. CASE /\ host' \in Repaired(host, fix)
             /\ pc' = IF Len(todo) = 1 THEN "recheck" ELSE "fix"
             /\ clean' = [clean EXCEPT !.sofar = @ /\ host' # host]
             /\ UNCHANGED result
    <2> USE DEF IInv
    <2>1. /\ host' \in [supported : BOOLEAN, docker : {"missing", "stopped", "running"},
                        compose : BOOLEAN, systemd : BOOLEAN, dirs : [Dirs -> DirStates]]
          /\ host'.supported = host.supported /\ host'.systemd = host.systemd
          /\ \A d \in Dirs : /\ host.dirs[d] = "ok" => host'.dirs[d] = "ok"
                             /\ host'.dirs[d] # host.dirs[d] => host'.dirs[d] = "ok" /\ fix = d
          /\ fix # "docker_install" => host'.compose = host.compose
          /\ host.docker # "missing" => host'.docker # "missing"
          /\ fix # "docker_install" /\ host.docker = "running" => host'.docker = "running"
          /\ fix \notin {"docker_install", "systemd_start_docker"} => host'.docker = host.docker
          /\ host' # host => /\ fix = "docker_install" => host'.docker # "missing"
                             /\ fix \in Dirs => host'.dirs[fix] = "ok"
          /\ fix = "systemd_start_docker" => host'.docker = "running"
      BY <1>1, <1>4, RepairedHost
    <2>2. /\ pc' \in {"fix", "recheck"} /\ clean'.runs = clean.runs
          /\ clean.runs \in Nat /\ runs \in Nat
          /\ clean'.sofar <=> clean.sofar /\ host' # host
          /\ clean' \in [runs : 0..MaxRuns, sofar : BOOLEAN]
      <3>1. clean \in [runs : 0..MaxRuns, sofar : BOOLEAN] /\ clean.runs \in Nat /\ runs \in Nat
        BY DEF CleanTypeOK, RunTypeOK
      <3>2. (clean.sofar /\ host' # host) \in BOOLEAN
        OBVIOUS
      <3> QED
        BY <1>4, <3>1, <3>2
    <2>3. env.docker => fix # "docker_install"
      BY <1>1 DEF RepairInv, TodoInv
    <2> HIDE DEF fix
    <2>4. RunTypeOK' /\ HostTypeOK' /\ DiskTypeOK' /\ CleanTypeOK'
      BY <1>1, <1>2, <1>4, <2>1, <2>2
         DEF RunTypeOK, HostTypeOK, DiskTypeOK, CleanTypeOK, Steps
    <2>5. ModeInv' /\ HostInv' /\ FilesInv' /\ ServedInv'
      BY <1>1, <1>2, <1>4
         DEF ModeInv, HostInv, FilesInv, ServedInv, Resolved, Checking, Writing
    <2>6. CleanInv'
      BY <1>1, <1>2, <2>2 DEF RepairInv, CleanInv
    <2>7. EnvInv'
      BY <1>1, <1>2, <1>4, <2>1, <2>2 DEF RepairInv, EnvInv, Repairable, Checking
    <2>8. ProgressInv'
      BY <1>1, <1>2, <2>1, <2>2, <2>3 DEF RepairInv, EnvInv, ProgressInv, Repairable, Checking
    <2>9. TodoInv'
      <3>1. "docker_install" \in Todo' => ~env.docker
        BY <1>1 DEF RepairInv, TodoInv
      <3> DEFINE later == IF pc' = "fix" THEN Todo' ELSE {}
      <3>2. \A f \in Todo : f # fix => f \in later
        BY <1>1, <1>4
      <3> HIDE DEF later
      <3>3. ASSUME clean.sofar, host' # host
            PROVE  /\ \A d \in Dirs : host'.dirs[d] # "ok" => d \in later
                   /\ host'.docker = "missing" => "docker_install" \in later
                   /\ env.docker /\ host'.docker = "stopped" => "systemd_start_docker" \in later
        <4>1. /\ \A d \in Dirs : host.dirs[d] # "ok" => d \in Todo
              /\ host.docker = "missing" => "docker_install" \in Todo
              /\ env.docker /\ host.docker = "stopped" => "systemd_start_docker" \in Todo
          BY <1>1, <3>3 DEF RepairInv, TodoInv
        <4>2. ASSUME NEW d \in Dirs, host'.dirs[d] # "ok" PROVE d \in later
          BY <2>1, <3>2, <3>3, <4>1, <4>2
        <4>3. host'.docker = "missing" => "docker_install" \in later
          BY <2>1, <3>2, <3>3, <4>1
        <4>4. ASSUME env.docker, host'.docker = "stopped" PROVE "systemd_start_docker" \in later
          <5>1. host.docker = "stopped" /\ fix # "systemd_start_docker"
            BY <1>1, <2>1, <2>3, <4>4 DEF RepairInv, EnvInv, Checking, HostTypeOK
          <5> QED
            BY <3>2, <4>1, <4>4, <5>1
        <4> QED
          BY <4>2, <4>3, <4>4
      <3> QED
        BY <1>2, <2>2, <3>1, <3>3 DEF TodoInv, later
    <2> QED
      BY <2>4, <2>5, <2>6, <2>7, <2>8, <2>9 DEF RepairInv
  <1> QED
    BY <1>3, <1>4 DEF RunFix

\* The second preflight finds what the fixes have not repaired.
LEMMA RecheckInv ==
  ASSUME IInv, Recheck
  PROVE  IInv'
  <1>1. /\ pc = "recheck" /\ UNCHANGED <<runVars, hostVars, files, volume, services, polls>>
        /\ pc \in Checking /\ todo \in Seq(Fixes)
    BY DEF Recheck, Checking, IInv, HostTypeOK
  <1>2. CASE Failing(host) = {} /\ Continue("portscan")
    BY <1>1, <1>2, Passes
  <1>3. CASE Return("failed") /\ ~clean.sofar
    <2>1. clean' = [clean EXCEPT !.sofar = FALSE] /\ pc' = "idle" /\ result' = "failed"
      BY <1>3 DEF Return
    <2> QED
      BY <1>1, <2>1, GivesUp DEF runVars, hostVars
  <1>4. CASE Return("failed") /\ clean.sofar
    <2>1. /\ \A d \in Dirs : host.dirs[d] = "ok"
          /\ host.docker # "missing"
          /\ env.docker => host.docker # "stopped"
      BY <1>1, <1>4 DEF IInv, RepairInv, TodoInv
    <2>2. clean.runs >= 1 /\ Repairable => env.docker
      BY <1>1 DEF IInv, RepairInv, EnvInv
    <2>3. clean.runs >= 1 /\ Repairable => host.docker = "running"
      BY <2>1, <2>2 DEF IInv, HostTypeOK
    <2> QED
      BY <1>1, <1>4, <2>1, <2>3, EndsCounted
  <1> QED
    BY <1>2, <1>3, <1>4 DEF Recheck

\* A killed command leaves what it was writing, and what it was waiting for.
LEMMA KillInv ==
  ASSUME IInv, Kill
  PROVE  IInv'
  <1> USE DEF IInv
  <1>1. /\ pc # "idle" /\ pc' = "idle" /\ result' = "killed"
        /\ clean' = [clean EXCEPT !.sofar = FALSE]
        /\ UNCHANGED <<mode, cfg, runs, env, todo, polls>>
    BY DEF Kill, Return, runVars
  <1>2. CASE pc \in Checking
    <2>1. /\ UNCHANGED <<files, services, volume>>
          /\ (pc = "fix" /\ host' \in Attempted(host, Head(todo))) \/ UNCHANGED host
      BY <1>2 DEF Kill, Checking
    <2>2. todo' \in Seq(Fixes)
      BY <1>1 DEF HostTypeOK
    <2> QED
      BY <1>1, <1>2, <2>1, <2>2, GivesUp
  <1>3. CASE pc \notin Checking
    <2>1. UNCHANGED host
      BY <1>3 DEF Kill, Checking
    <2>2. HostTypeOK' /\ CleanTypeOK' /\ HostInv' /\ RepairInv'
      <3>1. pc \notin Checking \union {"idle"} /\ UNCHANGED <<hostVars, runVars>>
        BY <1>1, <1>3, <2>1 DEF hostVars, runVars
      <3>2. Return("killed")
        BY DEF Kill
      <3> QED
        BY <3>1, <3>2, PastTheChecks
    <2>3. RunTypeOK' /\ ModeInv'
      BY <1>1 DEF RunTypeOK, ModeInv, Checking, Writing
    <2>4. /\ files' \in [env : 0..MaxRuns, tmp : FileStates, compose : FileStates,
                         gpu : FileStates]
          /\ files'.env = files.env
          /\ files'.compose = "absent" => files.compose = "absent"
      BY DEF Kill, DiskTypeOK, FileStates
    <2>5. FilesInv'
      BY <1>1 DEF FilesInv
    <2>6. DiskTypeOK' /\ ServedInv'
      <3>1. CASE pc = "up" /\ (\E some \in SUBSET Services : Start(some)) /\ UNCHANGED files
        BY <3>1, DeploysResolved, StartedFacts
      <3>2. CASE /\ pc = "restart" /\ (\E some \in SUBSET Services : Restarted(some))
                 /\ UNCHANGED <<files, volume>>
        BY <3>2, RestartedFacts
      <3>3. CASE UNCHANGED <<services, volume>>
        BY <2>4, <3>3 DEF DiskTypeOK, ServedInv, Resolved
      <3>4. SUBSET Declared \subseteq SUBSET Services
        BY ServicesAssumption DEF Declared
      <3>5. \/ pc = "up" /\ (\E some \in SUBSET Declared : Start(some)) /\ UNCHANGED files
            \/ /\ pc = "restart" /\ (\E some \in SUBSET Declared : Restarted(some))
               /\ UNCHANGED <<files, volume>>
            \/ UNCHANGED <<services, volume>>
        BY DEF Kill
      <3> QED
        BY <3>1, <3>2, <3>3, <3>4, <3>5
    <2> QED
      BY <2>2, <2>3, <2>5, <2>6
  <1> QED
    BY <1>2, <1>3

-----------------------------------------------------------------------------
(* The theorems.                                                            *)

\* The invariant holds at the start.
LEMMA InitInv == Init => IInv
  <1> SUFFICES ASSUME Init PROVE IInv
    OBVIOUS
  <1> USE BoundsAssumption DEF Init
  <1>1. RunTypeOK /\ DiskTypeOK
    BY DEF RunTypeOK, DiskTypeOK, FileStates, ServiceStates
  <1>2. HostTypeOK /\ CleanTypeOK
    <2>1. <<>> \in Seq(Fixes)
      OBVIOUS
    <2> QED
      BY <2>1 DEF HostTypeOK, CleanTypeOK
  <1>3. ModeInv /\ HostInv /\ FilesInv /\ ServedInv
    BY DEF ModeInv, HostInv, FilesInv, ServedInv, Checking, Writing
  <1>4. RepairInv
    BY DEF RepairInv, CleanInv, EnvInv, TodoInv, ProgressInv, Checking
  <1> QED
    BY <1>1, <1>2, <1>3, <1>4 DEF IInv

\* Every step keeps the inductive invariant.
LEMMA NextInv == IInv /\ [Next]_vars => IInv'
  <1> SUFFICES ASSUME IInv, [Next]_vars PROVE IInv'
    OBVIOUS
  <1>1. CASE UNCHANGED vars
    <2> USE <1>1 DEF vars, runVars, hostVars, IInv
    <2>1. RunTypeOK' /\ HostTypeOK' /\ DiskTypeOK' /\ CleanTypeOK'
      BY DEF RunTypeOK, HostTypeOK, DiskTypeOK, CleanTypeOK
    <2>2. ModeInv' /\ HostInv' /\ FilesInv' /\ ServedInv'
      BY DEF ModeInv, HostInv, FilesInv, ServedInv, Resolved
    <2>3. RepairInv'
      BY DEF RepairInv, CleanInv, EnvInv, TodoInv, Todo, ProgressInv, Repairable
    <2> QED
      BY <2>1, <2>2, <2>3
  <1>2. CASE StartCommand("update", "pull") \/ StartCommand("restart", "restart")
    BY <1>2, StartCommandInv
  <1>3. CASE Step
    BY <1>3, PreflightInv, RunFixInv, RecheckInv, PortScanInv, WriteEnvTmpInv, RenameEnvInv,
       WriteComposeInv, WriteGPUInv, PullInv, UpInv, VerifyInv, RestartInv DEF Step
  <1> QED
    BY <1>1, <1>2, <1>3, StartInstallInv, KillInv, ServiceStepInv DEF Next

\* The invariant holds whatever commands an operator runs, and wherever they are killed.
THEOREM Invariance == Spec => []IInv
  BY InitInv, NextInv, PTL DEF Spec

\* Every variable keeps its type.
THEOREM TypeCorrect == Spec => []TypeOK
  <1>1. IInv => TypeOK
    BY DEF IInv, TypeOK, RunTypeOK, HostTypeOK, DiskTypeOK, CleanTypeOK
  <1> QED
    BY <1>1, Invariance, PTL

\* headless.Run writes its files only on a host that its second preflight has passed.
THEOREM WritesOnPassingHost == Spec => WritesOnlyOnPassingHost
  <1>1. IInv /\ [Next]_vars => [files' # files => Failing(host) = {}]_vars
    <2> SUFFICES ASSUME IInv, Next, files' # files PROVE Failing(host) = {}
      OBVIOUS
    <2>1. pc \in {"envTmp", "envRename", "compose", "gpu"}
      BY DEF Next, Step, StartInstall, StartCommand, Preflight, RunFix, Recheck, PortScan,
             WriteEnvTmp, RenameEnv, WriteCompose, WriteGPU, Pull, Up, Verify, Restart, Kill,
             ServiceStep
    <2> QED
      BY <2>1 DEF IInv, HostInv, ModeInv, Checking, Writing
  <1> QED
    BY <1>1, Invariance, PTL DEF Spec, WritesOnlyOnPassingHost

\* What an installation deploys is whole, and what this run has written.
THEOREM DeployedFilesAreWhole == Spec => []DeploysWholeFiles
  <1>1. IInv => DeploysWholeFiles
    BY DEF IInv, FilesInv, DeploysWholeFiles
  <1> QED
    BY <1>1, Invariance, PTL

\* Two accepting runs, in each of which every fix had an effect, leave a host that passes.
THEOREM TwoRunsSuffice == Spec => []TwoRunsRepair
  <1>1. IInv => TwoRunsRepair
    <2> SUFFICES ASSUME IInv, clean.runs >= 2, host.supported, host.systemd, host.compose
                 PROVE  Failing(host) = {}
      BY DEF TwoRunsRepair
    <2>1. clean.runs \in Nat
      BY DEF IInv, CleanTypeOK
    <2>2. host.docker = "running" /\ \A d \in Dirs : host.dirs[d] = "ok"
      BY <2>1 DEF IInv, RepairInv, ProgressInv, Repairable
    <2> QED
      BY <2>2 DEF Failing
  <1> QED
    BY <1>1, Invariance, PTL

-----------------------------------------------------------------------------
(* The menu of the interactive installer.                                   *)

\* A trace of a legacy installation is never taken for none, and without a trace, or on
\* another platform, there is none.
LEMMA LegacyVerdict ==
  ASSUME NEW supported \in BOOLEAN, NEW legacy \in LegacyVerdicts[supported]
  PROVE  /\ legacy.trace \in BOOLEAN
         /\ legacy.presence \in {"absent", "present", "uncertain", "unsupported"}
         /\ legacy.trace => legacy.presence \in {"present", "uncertain"}
         /\ ~legacy.trace => legacy.presence \in {"absent", "unsupported"}
  <1>1. legacy \in {[presence |-> LegacyFallbackProbe(supported, path, pm2),
                     trace |-> supported /\ Trace(path, pm2)] : path \in Stats, pm2 \in PM2Answers}
    BY DEF LegacyVerdicts
  <1>2. PICK path \in Stats, pm2 \in PM2Answers :
            legacy = [presence |-> LegacyFallbackProbe(supported, path, pm2),
                      trace |-> supported /\ Trace(path, pm2)]
    BY <1>1
  <1>3. /\ legacy.presence = LegacyFallbackProbe(supported, path, pm2)
        /\ legacy.trace = (supported /\ Trace(path, pm2))
    BY <1>2
  <1>4. CASE ~supported
    <2>1. LegacyFallbackProbe(supported, path, pm2) = "unsupported"
      BY <1>4 DEF LegacyFallbackProbe, KnownLegacyDirectoryProbe, PM2Probe
    <2>2. (supported /\ Trace(path, pm2)) = FALSE
      BY <1>4
    <2> QED
      BY <1>3, <2>1, <2>2
  <1>5. CASE supported /\ path # "absent"
    <2>1. KnownLegacyDirectoryProbe(supported, path) \in {"present", "uncertain"}
      BY <1>5 DEF KnownLegacyDirectoryProbe, Stats
    <2>2. Trace(path, pm2) = TRUE
      BY <1>5 DEF Trace
    <2> QED
      BY <1>3, <1>5, <2>1, <2>2 DEF LegacyFallbackProbe
  <1>6. CASE supported /\ path = "absent"
    <2>1. legacy.presence = PM2Probe(supported, pm2)
      BY <1>3, <1>6 DEF LegacyFallbackProbe, KnownLegacyDirectoryProbe
    <2>2. pm2.answer = "missing" => pm2.records = {}
      BY DEF PM2Answers
    <2>3. Trace(path, pm2) <=>
            \/ pm2.answer = "failed" \/ \E r \in pm2.records : r.name \/ r.script \/ r.ecosystem
      BY <1>6 DEF Trace
    <2>4. \A r : Matched(r) \/ Weak(r) <=> r.name \/ r.script \/ r.ecosystem
      BY DEF Matched, Weak
    <2> QED
      BY <1>3, <1>6, <2>1, <2>2, <2>3, <2>4 DEF PM2Probe
  <1> QED
    BY <1>4, <1>5, <1>6

\* The menu fits every host that the commands can leave.
THEOREM MenuIsSafe == Spec => []MenuFitsHost
  <1>1. IInv => MenuFitsHost
    <2> SUFFICES ASSUME IInv, pc = "idle",
                        NEW dotenv \in Stat(files.env # 0),
                        NEW base \in Stat(files.compose # "absent"),
                        NEW legacy \in LegacyVerdicts[host.supported]
                 PROVE  LET menu == Classify(WorkspaceProbe(dotenv, base), legacy.presence) IN
                        /\ menu \in {"NotInstalled", "LegacyPM2"} =>
                             ~Resolved /\ volume = 0 /\ \A s \in Services : services[s] = "absent"
                        /\ menu \in {"NotInstalled", "Current"} => ~legacy.trace
                        /\ menu = "Current" => Resolved
                        /\ mode = "install" /\ result = "ok" /\ "unreadable" \notin {dotenv, base}
                              /\ ~legacy.trace => menu = "Current"
      BY DEF MenuFitsHost
    <2> DEFINE current == WorkspaceProbe(dotenv, base)
               menu == Classify(current, legacy.presence)
    <2>1. host.supported \in BOOLEAN
      BY DEF IInv, HostTypeOK
    <2>2. /\ legacy.trace \in BOOLEAN
          /\ legacy.presence \in {"absent", "present", "uncertain", "unsupported"}
          /\ legacy.trace => legacy.presence \in {"present", "uncertain"}
          /\ ~legacy.trace => legacy.presence \in {"absent", "unsupported"}
      BY <2>1, LegacyVerdict
    <2>3. /\ current \in {"absent", "present", "uncertain"}
          /\ current = "absent" => files.env = 0 /\ files.compose = "absent"
          /\ current = "present" => files.env # 0 /\ files.compose # "absent"
          /\ Resolved /\ "unreadable" \notin {dotenv, base} => current = "present"
      BY DEF Stat, WorkspaceProbe, Resolved
    <2> HIDE DEF current
    <2>4. /\ menu \in {"NotInstalled", "LegacyPM2"} => current = "absent"
          /\ menu \in {"NotInstalled", "Current"} => ~legacy.trace
          /\ menu = "Current" => current = "present"
          /\ current = "present" /\ ~legacy.trace => menu = "Current"
      <3>1. CASE current = "uncertain" \/ legacy.presence = "uncertain"
        <4>1. menu = "Unknown"
          BY <3>1 DEF Classify
        <4> QED
          BY <2>2, <3>1, <4>1
      <3>2. CASE current = "present" /\ legacy.presence # "uncertain"
        <4>1. menu = IF legacy.presence = "present" THEN "Conflict" ELSE "Current"
          BY <2>2, <3>2 DEF Classify
        <4> QED
          BY <2>2, <3>2, <4>1
      <3>3. CASE current = "absent" /\ legacy.presence # "uncertain"
        <4>1. menu = IF legacy.presence = "present" THEN "LegacyPM2" ELSE "NotInstalled"
          BY <2>2, <3>3 DEF Classify
        <4> QED
          BY <2>2, <3>3, <4>1
      <3> QED
        BY <2>3, <3>1, <3>2, <3>3
    <2> HIDE DEF menu
    <2>5. ~Resolved => volume = 0 /\ \A s \in Services : services[s] = "absent"
      BY DEF IInv, ServedInv
    <2>6. mode = "install" /\ result = "ok" => Resolved
      BY DEF IInv, FilesInv
    <2>7. /\ menu \in {"NotInstalled", "LegacyPM2"} =>
               ~Resolved /\ volume = 0 /\ \A s \in Services : services[s] = "absent"
          /\ menu \in {"NotInstalled", "Current"} => ~legacy.trace
          /\ menu = "Current" => Resolved
          /\ mode = "install" /\ result = "ok" /\ "unreadable" \notin {dotenv, base}
                /\ ~legacy.trace => menu = "Current"
      BY <2>3, <2>4, <2>5, <2>6 DEF Resolved
    <2> QED
      BY <2>7 DEF menu, current
  <1> QED
    BY <1>1, Invariance, PTL
=============================================================================
