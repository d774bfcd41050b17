-------------------------- MODULE AsteriskInstaller ---------------------------
(***************************************************************************)
(* The optional Asterisk set-up (internal/asterisk): Installer.Install and *)
(* its rollback, on a host that may already run an operator's Asterisk.    *)
(*                                                                         *)
(* Install takes a snapshot of the package, the service, two configuration *)
(* files and the shared resource bundle, changes all of them one command   *)
(* at a time, and on a failure undoes the changes from the snapshot,       *)
(* ignoring the errors of the undoing.  The snapshot is only in memory, so *)
(* a killed run undoes nothing.  A configuration file is a sequence of     *)
(* lines, which the operator may edit between two runs: of the operator's  *)
(* lines those that bind the AMI count, local or external; the markers and *)
(* the body of the managed section are one line each.                      *)
(***************************************************************************)
EXTENDS Naturals, Sequences

CONSTANTS QueriesFail,  \* dpkg or systemctl may fail, which reads as "no"
          MaxRuns,      \* installations run one after the other
          MaxLines      \* bound: lines of a file the operator adds to

ASSUME QueriesFailAssumption == QueriesFail \in BOOLEAN
ASSUME BoundsAssumption == MaxRuns \in Nat \ {0} /\ MaxLines \in Nat

VARIABLES pc,      \* the next command of Install or of its rollback, or "idle"
          host,    \* package, service, configuration files and bundle
          snap,    \* installSnapshot
          ours,    \* packageInstalledByInstaller
          left,    \* the saved configurations that rollback has not restored yet
          result,  \* how the last run ended, if nothing has happened since
          runs,    \* runs started
          before,  \* the host when the run started (history)
          undone,  \* every command of the rollback worked so far (history)
          stage    \* the step that failed (history)

vars == <<pc, host, snap, ours, left, result, runs, before, undone, stage>>

Paths == {"manager", "extensions"}

Lines == {"local", "external", "begin", "body", "end"}
Configs == [exists : BOOLEAN, text : Seq(Lines)]

Absent == [exists |-> FALSE, text |-> <<>>]
Written(text) == [exists |-> TRUE, text |-> text]

\* os.WriteFile that was cut short.
Cut(text) == {Written(SubSeq(text, 1, n)) : n \in 0..(Len(text) - 1)}

\* The first such line from position i, 0 for none.
Index(text, i, line) ==
    LET found == {j \in i..Len(text) : text[j] = line}
    IN IF found = {} THEN 0 ELSE CHOOSE j \in found : \A k \in found : j <= k

\* ReplaceManagedSection: what follows a begin marker without an end marker goes.
Managed(text) ==
    LET begin == Index(text, 1, "begin")
        end == Index(text, begin, "end")
        prefix == IF begin = 0 THEN text ELSE SubSeq(text, 1, begin - 1)
        suffix == IF begin = 0 \/ end = 0 THEN <<>> ELSE SubSeq(text, end + 1, Len(text))
    IN prefix \o <<"begin", "body", "end">> \o suffix

\* inManaged of validateExistingManagerConfig, at line i.
InManaged(text, i) ==
    \E b \in 1..i : text[b] = "begin" /\ \A e \in b..(i - 1) : text[e] # "end"

Bundles == {"absent", "operator", "partial", "managed"}

\* What the running daemon has read of manager.conf.
Loaded == {"nothing", "own", "section"}

Hosts == [package : BOOLEAN, enabled : BOOLEAN, active : BOOLEAN, loaded : Loaded,
          configs : [Paths -> Configs], bundle : Bundles]

Steps == {"package", "manager", "extensions", "bundle", "enable", "restart", "verify"}
Undo == {"undoBundle", "undoConfigs", "undoActive", "undoEnabled", "undoPackage"}

\* One type invariant for Install's state.
TypeOK ==
    /\ pc \in Steps \union Undo \union {"idle"}
    /\ host \in Hosts /\ snap \in Hosts /\ before \in Hosts
    /\ ours \in BOOLEAN /\ undone \in BOOLEAN /\ left \in SUBSET Paths
    /\ result \in {"none", "installed", "failed", "killed"}
    /\ stage \in Steps \union {"none", "snapshot"}
    /\ runs \in 0..MaxRuns

\* A host with no Asterisk, or with one of the operator's.
Init ==
    /\ pc = "idle" /\ result = "none" /\ runs = 0 /\ stage = "none"
    /\ ours = FALSE /\ undone = TRUE /\ left = {}
    /\ \E package, enabled, active \in BOOLEAN, bundle \in {"absent", "operator"},
          text \in {<<>>, <<"local">>, <<"external">>} :
           /\ enabled \/ active => package
           /\ host = [package |-> package, enabled |-> enabled, active |-> active,
                      loaded |-> IF active THEN "own" ELSE "nothing",
                      configs |-> [p \in Paths |-> IF text = <<>> THEN Absent ELSE Written(text)],
                      bundle |-> bundle]
    /\ snap = host /\ before = host

-----------------------------------------------------------------------------
(* Installer.Install.                                                      *)

\* What a query of dpkg or systemctl answers.
Answers(fact) == IF QueriesFail THEN {fact, FALSE} ELSE {fact}

\* Install up to the snapshot: an unreadable file ends it with nothing done.
Snapshot ==
    /\ pc = "idle" /\ runs < MaxRuns
    /\ runs' = runs + 1
    /\ before' = host /\ undone' = TRUE /\ ours' = FALSE
    /\ \/ pc' = "idle" /\ result' = "failed" /\ stage' = "snapshot" /\ UNCHANGED snap
       \/ /\ \E package \in Answers(host.package), enabled \in Answers(host.enabled),
                active \in Answers(host.active) :
                 /\ snap' = [host EXCEPT !.package = package, !.enabled = enabled,
                                         !.active = active]
                 /\ pc' = IF package THEN "manager" ELSE "package"
          /\ result' = "none" /\ stage' = "none"
    /\ UNCHANGED <<host, left>>

\* A step that worked.
Then(next) == pc' = next /\ UNCHANGED <<snap, ours, left, result, runs, before, undone, stage>>

\* A step that failed: rollback, beginning with the bundle.
Fails ==
    /\ pc' = "undoBundle" /\ stage' = pc /\ left' = Paths
    /\ UNCHANGED <<snap, ours, result, runs, before, undone>>

\* The package, its service and its default configuration files, whose AMI may
\* or may not be local; nothing changes where it was installed already.
Unpacked(h, own) ==
    IF h.package THEN h ELSE
    [h EXCEPT !.package = TRUE, !.enabled = TRUE, !.active = TRUE, !.loaded = "own",
              !.configs = [p \in Paths |-> IF h.configs[p].exists THEN h.configs[p]
                                           ELSE Written(<<own>>)]]

\* Packages.Install.  A failure returns at once, without a rollback, and may have
\* unpacked the package and started its service.
InstallPackage ==
    /\ pc = "package"
    /\ \/ /\ \E own \in {"local", "external"} : host' = Unpacked(host, own)
          /\ pc' = "manager" /\ ours' = TRUE
          /\ UNCHANGED <<result, stage>>
       \/ /\ \E own \in {"local", "external"} : host' \in {host, Unpacked(host, own)}
          /\ pc' = "idle" /\ result' = "failed" /\ stage' = "package"
          /\ UNCHANGED ours
    /\ UNCHANGED <<snap, left, runs, before, undone>>

\* Mutant: the operator's AMI address is not looked at.
MutRejects(p) == FALSE

\* validateExistingManagerConfig, for manager.conf.
Rejects(p) ==
    LET text == host.configs[p].text IN
    p = "manager" /\ \E i \in DOMAIN text : text[i] = "external" /\ ~InManaged(text, i)

\* The file is left with a part of the text.
CutShort(p, text) == \E c \in Cut(text) : host' = [host EXCEPT !.configs[p] = c]

\* writeManagedConfigs, one file at a time.  os.WriteFile that fails may leave the
\* file cut short.
WriteConfig(p, next) ==
    /\ pc = p
    /\ \/ /\ ~Rejects(p) /\ Then(next)
          /\ host' = [host EXCEPT !.configs[p] = Written(Managed(@.text))]
       \/ Fails /\ \/ UNCHANGED host
                   \/ ~Rejects(p) /\ CutShort(p, Managed(host.configs[p].text))

\* Resources.CreateBundle.
CreateBundle ==
    /\ pc = "bundle"
    /\ \/ Then("enable") /\ host' = [host EXCEPT !.bundle = "managed"]
       \/ Fails /\ \E b \in {host.bundle, "partial"} : host' = [host EXCEPT !.bundle = b]

\* Services.Enable.
Enable ==
    /\ pc = "enable"
    /\ \/ Then("restart") /\ host' = [host EXCEPT !.enabled = TRUE]
       \/ Fails /\ UNCHANGED host

\* Services.Restart: a failure may leave the service stopped.
Restart ==
    /\ pc = "restart"
    /\ \/ Then("verify") /\ host' = [host EXCEPT !.active = TRUE, !.loaded = "section"]
       \/ Fails /\ \/ UNCHANGED host
                   \/ host' = [host EXCEPT !.active = FALSE, !.loaded = "nothing"]

\* The AMI greets and accepts the credentials of the written section.
LogsIn == host.active /\ host.loaded = "section"

\* Probe.VerifyAMI.
VerifyAMI ==
    /\ pc = "verify"
    /\ \/ /\ LogsIn
          /\ pc' = "idle" /\ result' = "installed"
          /\ UNCHANGED <<snap, ours, left, runs, before, undone, stage>>
       \/ Fails
    /\ UNCHANGED host

-----------------------------------------------------------------------------
(* rollback: every command may fail, and none is repeated.                 *)

\* Undoing goes on with `next'; `worked' says whether the command did.
Undone(next, worked) ==
    /\ pc' = next
    /\ undone' = (undone /\ worked)
    /\ result' = IF next = "idle" THEN "failed" ELSE result
    /\ UNCHANGED <<snap, ours, runs, before, stage>>

\* As before, with nothing done to the configurations.
UndoneOther(next, worked) == Undone(next, worked) /\ UNCHANGED left

\* Mutant: a bundle that was there before is removed like one that was not.
MutRestoreBundle ==
    /\ pc = "undoBundle"
    /\ \/ UndoneOther("undoConfigs", TRUE) /\ host' = [host EXCEPT !.bundle = "absent"]
       \/ UndoneOther("undoConfigs", FALSE)
          /\ \E b \in {"absent", "partial", host.bundle} : host' = [host EXCEPT !.bundle = b]

\* Resources.RestoreBundle: the root is removed and then written again.
RestoreBundle ==
    /\ pc = "undoBundle"
    /\ \/ UndoneOther("undoConfigs", TRUE) /\ host' = [host EXCEPT !.bundle = snap.bundle]
       \/ UndoneOther("undoConfigs", FALSE)
          /\ \E b \in {"absent", "partial", host.bundle} : host' = [host EXCEPT !.bundle = b]

\* Configs.WriteConfig of the saved content, or DeleteConfig, for the files of the
\* snapshot in any order.
RestoreConfig ==
    /\ pc = "undoConfigs"
    /\ \E p \in left :
           LET next == IF left = {p} THEN "undoActive" ELSE "undoConfigs"
           IN /\ left' = left \ {p}
              /\ \/ Undone(next, TRUE) /\ host' = [host EXCEPT !.configs[p] = snap.configs[p]]
                 \/ /\ Undone(next, FALSE)
                    /\ UNCHANGED host \/ CutShort(p, snap.configs[p].text)

\* Services.Stop, unless the service was active before.
RestoreActive ==
    /\ pc = "undoActive"
    /\ \/ snap.active /\ UndoneOther("undoEnabled", TRUE) /\ UNCHANGED host
       \/ /\ ~snap.active
          /\ \/ UndoneOther("undoEnabled", TRUE)
                /\ host' = [host EXCEPT !.active = FALSE, !.loaded = "nothing"]
             \/ UndoneOther("undoEnabled", FALSE) /\ UNCHANGED host

\* Services.Disable, unless the service was enabled before.
RestoreEnabled ==
    /\ pc = "undoEnabled"
    /\ \/ snap.enabled /\ UndoneOther("undoPackage", TRUE) /\ UNCHANGED host
       \/ /\ ~snap.enabled
          /\ \/ UndoneOther("undoPackage", TRUE) /\ host' = [host EXCEPT !.enabled = FALSE]
             \/ UndoneOther("undoPackage", FALSE) /\ UNCHANGED host

\* Packages.Remove, if Install installed it; the service goes with it.
RestorePackage ==
    /\ pc = "undoPackage"
    /\ \/ ~(ours /\ ~snap.package) /\ UndoneOther("idle", TRUE) /\ UNCHANGED host
       \/ /\ ours /\ ~snap.package
          /\ \/ /\ UndoneOther("idle", TRUE)
                /\ host' = [host EXCEPT !.package = FALSE, !.enabled = FALSE,
                                        !.active = FALSE, !.loaded = "nothing"]
             \/ UndoneOther("idle", FALSE) /\ UNCHANGED host

\* The installer is killed; the file it was writing may be cut short.
Kill ==
    /\ pc # "idle"
    /\ pc' = "idle" /\ result' = "killed"
    /\ \/ UNCHANGED host
       \/ pc \in Paths /\ ~Rejects(pc) /\ CutShort(pc, Managed(host.configs[pc].text))
    /\ UNCHANGED <<snap, ours, left, runs, before, undone, stage>>

\* Between two runs the operator adds a line at the end of manager.conf.
Edit ==
    /\ pc = "idle" /\ runs \in 1..(MaxRuns - 1)
    /\ host.configs["manager"].exists /\ Len(host.configs["manager"].text) < MaxLines
    /\ \E line \in {"local", "external"} :
          host' = [host EXCEPT !.configs["manager"].text = Append(@, line)]
    /\ result' = "none"
    /\ UNCHANGED <<pc, snap, ours, left, runs, before, undone, stage>>

Next ==
    \/ Snapshot \/ InstallPackage
    \/ WriteConfig("manager", "extensions") \/ WriteConfig("extensions", "bundle")
    \/ CreateBundle \/ Enable \/ Restart \/ VerifyAMI
    \/ RestoreBundle \/ RestoreConfig \/ RestoreActive \/ RestoreEnabled \/ RestorePackage \/ Kill
    \/ Edit

Spec == Init /\ [][Next]_vars

-----------------------------------------------------------------------------
(* Properties.                                                             *)

\* A run failed, and not before there was anything to undo.
RolledBack == pc = "idle" /\ result = "failed" /\ stage \notin {"none", "package"}

\* After a failed installation the configuration files, the bundle and the package
\* are what they were, and the service is enabled as it was, unless a command of the
\* rollback failed: whichever step fails, the rollback undoes the ones before it and
\* the half-done one; and no service is left running that did not run before.
RollbackRestoresHost ==
    RolledBack /\ undone =>
        /\ host.configs = before.configs /\ host.bundle = before.bundle
        /\ host.package = before.package /\ host.enabled = before.enabled
        /\ host.active => before.active

\* The operator's lines: those outside the managed section.
Own(text) == {i \in DOMAIN text : text[i] \in {"local", "external"} /\ ~InManaged(text, i)}

\* Two texts have the same lines of the operator's, in the same order.
SameOwnLines(text, other) ==
    \E f \in [Own(text) -> Own(other)] :
        /\ \A i, j \in Own(text) : i < j => f[i] < f[j]
        /\ \A k \in Own(other) : \E i \in Own(text) : f[i] = k
        /\ \A i \in Own(text) : other[f[i]] = text[i]

\* One managed section, and whole.
OneSection(text) ==
    \E b \in 1..(Len(text) - 2) :
        /\ text[b] = "begin" /\ text[b + 1] = "body" /\ text[b + 2] = "end"
        /\ \A i \in DOMAIN text \ b..(b + 2) : text[i] \in {"local", "external"}

\* File p holds the section once beside the operator's lines of the run's start, and an
\* AMI bound to no other address.
Configured(p) ==
    LET text == host.configs[p].text IN
    /\ OneSection(text)
    /\ before.configs[p].exists => SameOwnLines(before.configs[p].text, text)
    /\ p = "manager" => \A i \in DOMAIN text : text[i] # "external"

\* A reported success, also over a file that a killed run has cut short and the operator
\* has mended, means that the daemon that runs has read the written section, that both
\* files hold exactly one section, and whole, beside the operator's lines in their order,
\* none of which binds the AMI to another address, and that the bundle is in place.
SuccessMeansConfigured ==
    result = "installed" =>
        /\ host.package /\ host.enabled /\ host.active /\ host.loaded = "section"
        /\ \A p \in Paths : Configured(p)
        /\ host.bundle = "managed"

-----------------------------------------------------------------------------
(* What the documents say and the code does not keep.                      *)

\* Rollback "preserves pre-existing package/service/config state"
\* (asterisk-optional-server-setup/tasks.md:43): a service that ran before a failed
\* installation runs after it, on the operator's configuration.
OperatorServiceKept ==
    RolledBack /\ undone /\ before.active => host.active /\ host.loaded = before.loaded

\* "On host failure, stop/disable installer-created Asterisk"
\* (asterisk-optional-server-setup/proposal.md:53), the package step included.
PackageFailureStopsService ==
    pc = "idle" /\ result = "failed" /\ stage = "package" => (host.active => before.active)

\* "backup before first edit ... Preserves operator config"
\* (asterisk-optional-server-setup/design.md:13): the operator's lines survive an
\* installation that does not end.
KilledRunKeepsOperatorLines ==
    result = "killed" => \A p \in Paths :
        before.configs[p].exists => SameOwnLines(before.configs[p].text, host.configs[p].text)

\* Rollback "does not disable, uninstall, or rewrite pre-existing service/config
\* state" (asterisk-optional-server-setup/tasks.md:42).
OperatorPackageKept == before.package => host.package
=============================================================================
