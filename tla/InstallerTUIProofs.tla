-------------------------- MODULE InstallerTUIProofs --------------------------
(***************************************************************************)
(* Proofs about the root model, for any number of keys pressed too early,  *)
(* of health polls and of bootstrap actions, and for messages in any order.*)
(***************************************************************************)
EXTENDS InstallerTUI, Integers, TLAPS

None(S) == \A k \in S : inflight[k] = 0
AtMostOne(S) == /\ \A k \in S : inflight[k] <= 1
                /\ \A j, k \in S : inflight[j] > 0 /\ inflight[k] > 0 => j = k

\* A migration is only possible for the operator of a legacy installation.
Migrating == capable /\ menu = "LegacyPM2"

\* The screens and messages that only a migration has.
MigrationScreens == {"MigrationEnv", "MigrationAuth", "MigrationAuthFailed",
    "BackupPreflight", "BackupConfirm", "BackupRunning", "BackupResult", "MigrationConfirm",
    "MigrationCancelled", "MigrationDisposition", "MigrationRemoveConfirm",
    "MigrationQuiescence", "MigrationAuthCheck", "MigrationAuthRefresh", "DatabaseRestore",
    "MigrationRecovery", "MigrationSuccess", "MigrationResult"}
MigrationMessages == {"EnvironmentSelected", "migrationAuth", "backupPreflight", "backup",
    "DispositionStop", "DispositionRemove", "refresh", "begin", "LeaseGranted",
    "LeaseAfterFailure", "QuiescenceFailed", "validate", "restore", "RestoreSucceeded",
    "RestoreFailed", "completeFailure", "RecoveryVerified", "RecoveryUnproven",
    "completeSuccess", "SuccessCompleted"}

\* Until the handoff has answered: the screens, what they wait for, and the keys'
\* messages that may still come when their screen has gone.
EarlyScreens == {"ContextMenu", "MigrationEnv", "MigrationAuth", "MigrationAuthFailed",
    "BackupPreflight", "BackupConfirm", "BackupRunning", "BackupResult", "MigrationConfirm",
    "MigrationCancelled", "MigrationDisposition", "MigrationRemoveConfirm",
    "MigrationQuiescence"}
Early == screen \in EarlyScreens \/ (screen = "MigrationAuthRefresh" /\ auth.quiescence)
EarlyAwaited == {"migrationAuth", "backupPreflight", "backup", "refresh", "begin",
    "LeaseGranted", "LeaseAfterFailure", "QuiescenceFailed"}
Stale == {"MigrationSelected", "EnvironmentSelected", "DispositionStop", "DispositionRemove"}

\* After that: the screens, and the messages that have gone for good.
LateScreens == {"Preflight", "Bootstrap", "WorkspaceInput", "OptionalPackages", "PortScan",
    "EnvWrite", "AsteriskSetup", "Pull", "Deploy", "Verify", "Result", "MigrationAuthCheck",
    "MigrationAuthRefresh", "DatabaseRestore", "MigrationRecovery", "MigrationSuccess",
    "MigrationResult"}
Gone == {"DetectionStarted", "detect", "OperationDismissed", "authenticate", "update",
    "migrationAuth", "backupPreflight", "backup", "begin", "LeaseGranted",
    "LeaseAfterFailure", "QuiescenceFailed"}

\* There is one detection, and nothing happens before it.
StartInv ==
    /\ screen = "Splash" =>
           None(Messages \ {"DetectionStarted"}) /\ AtMostOne({"DetectionStarted"})
    /\ screen = "Detecting" => None(Messages \ {"detect"}) /\ AtMostOne({"detect"})
    /\ screen \in {"Splash", "Detecting"} <=> menu = "none"
    /\ menu # "none" => None({"DetectionStarted", "detect"})

\* Nothing of a migration without one.
PlainInv ==
    ~Migrating =>
        /\ screen \notin MigrationScreens /\ None(MigrationMessages)
        /\ handoff = "none" /\ ~lease /\ ~auth.recovery /\ ~auth.quiescence

\* Up to the lease a migration is a line: one answer is awaited, on the screen that asked
\* for it, and the handoff's lease is live only when the answer is that it is.
EarlyInv ==
    Migrating /\ Early =>
        /\ ~lease /\ ~auth.recovery /\ (auth.quiescence <=> screen = "MigrationAuthRefresh")
        /\ None(Messages \ (Stale \union EarlyAwaited)) /\ AtMostOne(EarlyAwaited)
        /\ \A k \in EarlyAwaited :
               inflight[k] > 0 => screen \in DOMAIN Awaits /\ k \in Awaits[screen]
        /\ handoff = IF inflight["LeaseGranted"] > 0 \/ inflight["LeaseAfterFailure"] > 0
                        THEN "live" ELSE "none"

\* From the lease on nothing leads back before it: a live handoff is held as a lease, and
\* given up only after its completion; and what leads to success follows a restore.
LateInv ==
    Migrating /\ ~Early =>
        /\ screen \in LateScreens /\ None(Gone) /\ ~auth.quiescence
        /\ handoff = "live" => lease
        /\ screen = "Result" => ~lease
        /\ (\/ inflight["RecoveryVerified"] > 0 \/ inflight["RecoveryUnproven"] > 0
            \/ inflight["SuccessCompleted"] > 0) => handoff # "live"
        /\ lease /\ (\/ inflight["HealthTick"] > 0 \/ inflight["InstallSuccess"] > 0
                     \/ screen = "Verify") => restored
        /\ inflight["completeSuccess"] > 0 \/ screen = "MigrationSuccess" => restored
        /\ inflight["RestoreSucceeded"] > 0 => restored
        /\ handoff = "released" => restored

FlowInv == ~again => StartInv /\ PlainInv /\ EarlyInv /\ LateInv

\* What has run was attempted, or will be called so before anything else.
FixInv ==
    prompt => /\ ran \subseteq attempted \/ inflight["BootstrapComplete"] > 0
              /\ ran \subseteq attempted \union boot.all
              /\ boot.left \intersect ran = {}

\* The inductive invariant.
SessionInv == TypeOK /\ NoScreenIsStuck /\ LeaseAccountedFor /\ FixInv
IInv == SessionInv /\ FlowInv

\* The types of what neither the event loop nor the bootstrap screen changes.
OtherTypeOK ==
    /\ screen \in Screens /\ faults \in SUBSET Fixes /\ menu \in DOMAIN Offers
    /\ docker \in {"none", "InstallSelected", "UpdateSelected"}
    /\ handoff \in {"none", "live", "released", "recovered"}
    /\ auth \in [recovery : BOOLEAN, quiescence : BOOLEAN]
    /\ code \in {"none", "verified", "unproven", "refused"}
    /\ polls \in 0..MaxPolls /\ outcome \in {"none", "installed", "failed"}
    /\ {capable, prompt, lease, restored, exempt, resolving, asterisk, interrupted, over}
           \subseteq BOOLEAN

\* What the steps of an installation send and receive, and the screens they lead to.
InstallScreens == {"Preflight", "Bootstrap", "WorkspaceInput", "OptionalPackages", "PortScan",
    "EnvWrite", "AsteriskSetup", "Pull", "Deploy"}
InstallMessages == {"preflight", "fix", "BootstrapComplete", "BootstrapSkipped",
    "PreflightPassed", "WorkspaceEntered", "PackagesConfirmed", "portScan", "PortsConfirmed",
    "envWrite", "asterisk", "PullStarted", "pull", "DeployStarted", "up", "InstallFailure"}

-----------------------------------------------------------------------------
(* Lemmas: what a call of Update does to inflight, and to the rest.         *)

\* Update was given m and returned `issued'; a key returned `issued'.
Delivered(m, issued) ==
    /\ ~over /\ inflight[m] > 0 /\ (Overtaken => m \in Immediate)
    /\ hasty' = hasty /\ again' = again
    /\ inflight \in [Messages -> Nat] /\ inflight' \in [Messages -> Nat]
    /\ \A k \in Messages \ issued : k # m => inflight'[k] = inflight[k]
    /\ \A k \in Messages \intersect issued : inflight'[k] > 0
    /\ \A k \in Messages \intersect issued : k # m => inflight'[k] = inflight[k] + 1
    /\ inflight'[m] = IF m \in issued THEN inflight[m] ELSE inflight[m] - 1
Typed(issued) ==
    /\ ~over /\ ~Overtaken
    /\ hasty' \in 0..MaxHasty /\ again' \in BOOLEAN /\ (again => again')
    /\ "DetectionStarted" \in issued /\ inflight["DetectionStarted"] > 0 => again'
    /\ inflight \in [Messages -> Nat] /\ inflight' \in [Messages -> Nat]
    /\ \A k \in Messages \ issued : inflight'[k] = inflight[k]
    /\ \A k \in Messages \intersect issued : inflight'[k] > 0 /\ inflight'[k] = inflight[k] + 1

\* A delivered message is one less in flight, and what its handler issues one more each.
LEMMA Handled ==
  ASSUME TypeOK, NEW m \in Messages, NEW issued, Handle(m, issued)
  PROVE  Delivered(m, issued)
  <1>1. \A k \in Messages : inflight'[k] = (inflight[k] - One(k = m)) + One(k \in issued)
    BY DEF Handle
  <1>2. inflight[m] > 0 /\ inflight \in [Messages -> Nat]
    BY DEF Handle, TypeOK
  <1> QED
    BY <1>1, <1>2 DEF One, Handle, Delivered

\* A key puts what it issues in flight and takes nothing away.
LEMMA Pressed ==
  ASSUME TypeOK, NEW issued, Press(issued)
  PROVE  Typed(issued)
  <1>1. \A k \in Messages : inflight'[k] = inflight[k] + One(k \in issued)
    BY DEF Press
  <1>2. inflight \in [Messages -> Nat] /\ hasty \in 0..MaxHasty /\ again \in BOOLEAN
    BY DEF TypeOK
  <1>3. hasty' \in 0..MaxHasty
    BY <1>2, BoundsAssumption DEF Press, One
  <1>4. ~over /\ ~Overtaken
    BY DEF Press
  <1>5. again' = (again \/ ("DetectionStarted" \in issued /\ inflight["DetectionStarted"] > 0))
    BY DEF Press
  <1>6. inflight' \in [Messages -> Nat]
    BY <1>2 DEF Press, One
  <1>7. again' \in BOOLEAN /\ (again => again')
        /\ ("DetectionStarted" \in issued /\ inflight["DetectionStarted"] > 0 => again')
    BY <1>2, <1>5
  <1>8. \A k \in Messages \ issued : inflight'[k] = inflight[k]
    BY <1>1, <1>2 DEF One
  <1>9. \A k \in Messages \intersect issued :
            inflight'[k] > 0 /\ inflight'[k] = inflight[k] + 1
    BY <1>1, <1>2 DEF One
  <1> QED
    BY <1>2, <1>3, <1>4, <1>6, <1>7, <1>8, <1>9 DEF Typed

\* The messages a screen waits for are given to a screen that waits for them.
LEMMA AwaitedIsTaken ==
  ASSUME TypeOK, screen \in DOMAIN Awaits, NEW m \in Awaits[screen]
  PROVE  m \in Messages /\ screen \in TakenOn(m)
  BY DEF Awaits, TakenOn, Messages, Commands, Immediate, Results, Screens, Offers, TypeOK

\* A screen is not stuck if the step sends what it waits for, or takes nothing of it away.
LEMMA NotStuck ==
  ASSUME TypeOK, NoScreenIsStuck, ~over, TypeOK', NEW issued \in SUBSET Messages, NEW m,
         \A k \in Messages \ issued : k # m => inflight'[k] = inflight[k],
         \A k \in issued : inflight'[k] > 0,
         screen' \in DOMAIN Awaits =>
             \/ issued \intersect Awaits[screen'] # {}
             \/ screen' = screen /\ m \notin Awaits[screen]
  PROVE  NoScreenIsStuck'
  <1>1. \A s \in DOMAIN Awaits : Awaits[s] \subseteq Messages
    BY DEF Awaits, Messages, Commands, Immediate, Results
  <1> QED
    BY <1>1 DEF NoScreenIsStuck

\* Steps that have nothing to do with the fixes.
LEMMA Kept ==
  ASSUME IInv, NEW m \in Messages \ {"BootstrapComplete"}, NEW issued \in SUBSET Messages,
         Handle(m, issued), OtherTypeOK', UNCHANGED <<prompt, checkVars>>,
         exempt' => lease', over' = over,
         screen' \in DOMAIN Awaits =>
             \/ issued \intersect Awaits[screen'] # {}
             \/ screen' = screen /\ m \notin Awaits[screen]
  PROVE  SessionInv' /\ Delivered(m, issued)
  <1>1. TypeOK /\ Delivered(m, issued)
    BY Handled DEF IInv, SessionInv
  <1>2. TypeOK'
    BY <1>1 DEF TypeOK, OtherTypeOK, Delivered, checkVars
  <1>3. NoScreenIsStuck'
    <2>1. /\ ~over /\ \A k \in issued : inflight'[k] > 0
          /\ \A k \in Messages \ issued : k # m => inflight'[k] = inflight[k]
      BY <1>1 DEF Delivered
    <2> QED
      BY <1>1, <1>2, <2>1, NotStuck DEF IInv, SessionInv
  <1>4. LeaseAccountedFor'
    BY <1>1 DEF Delivered, LeaseAccountedFor
  <1>5. FixInv'
    <2>1. inflight["BootstrapComplete"] > 0 => inflight'["BootstrapComplete"] > 0
      BY <1>1 DEF Messages, Immediate, Delivered
    <2> QED
      BY <2>1 DEF IInv, SessionInv, FixInv, checkVars
  <1> QED
    BY <1>1, <1>2, <1>3, <1>4, <1>5 DEF SessionInv

\* A key keeps the session's invariant if the screen it shows waits for what it issues.
LEMMA KeptByKey ==
  ASSUME IInv, NEW issued \in SUBSET Messages, Press(issued), OtherTypeOK',
         UNCHANGED <<prompt, checkVars>>, exempt' => lease', over' = over,
         screen' \in DOMAIN Awaits => screen' = screen \/ issued \intersect Awaits[screen'] # {}
  PROVE  SessionInv' /\ Typed(issued)
  <1>1. TypeOK /\ Typed(issued)
    BY Pressed DEF IInv, SessionInv
  <1>2. TypeOK'
    BY <1>1 DEF TypeOK, OtherTypeOK, Typed, checkVars
  <1>3. NoScreenIsStuck'
    <2>1. \A s \in DOMAIN Awaits : "key" \notin Awaits[s]
      BY DEF Awaits
    <2>2. /\ ~over /\ \A k \in issued : inflight'[k] > 0
          /\ \A k \in Messages \ issued : inflight'[k] = inflight[k]
      BY <1>1 DEF Typed
    <2> QED
      BY <1>1, <1>2, <2>1, <2>2, NotStuck DEF IInv, SessionInv
  <1>4. LeaseAccountedFor'
    BY <1>1 DEF Typed, LeaseAccountedFor
  <1>5. FixInv'
    <2>1. inflight["BootstrapComplete"] > 0 => inflight'["BootstrapComplete"] > 0
      BY <1>1 DEF Messages, Immediate, Typed
    <2> QED
      BY <2>1 DEF IInv, SessionInv, FixInv, checkVars
  <1> QED
    BY <1>1, <1>2, <1>3, <1>4, <1>5 DEF SessionInv

\* Steps that only change the screen.
LEMMA Moved ==
  ASSUME IInv, NEW m \in Messages \ {"BootstrapComplete"}, NEW s \in Screens,
         NEW issued \in SUBSET Messages, Moves(Handle(m, issued), s),
         s \in DOMAIN Awaits =>
             \/ issued \intersect Awaits[s] # {}
             \/ s = screen /\ m \notin Awaits[screen]
  PROVE  /\ SessionInv' /\ screen' = s /\ Delivered(m, issued)
         /\ UNCHANGED <<capable, menu, lease, handoff, auth, restored>>
  <1>1. /\ screen' = s /\ Handle(m, issued)
        /\ UNCHANGED <<sessionVars, leaseVars, checkVars, endVars, polls>>
    BY DEF Moves
  <1>2. OtherTypeOK' /\ (exempt' => lease')
    BY <1>1 DEF IInv, SessionInv, LeaseAccountedFor, TypeOK, OtherTypeOK, sessionVars,
       leaseVars, checkVars, endVars
  <1> QED
    BY <1>1, <1>2, Kept DEF sessionVars, leaseVars, endVars

\* The same for a key that only changes the screen.
LEMMA MovedByKey ==
  ASSUME IInv, NEW s \in Screens, NEW issued \in SUBSET Messages, Moves(Press(issued), s),
         s \in DOMAIN Awaits => s = screen \/ issued \intersect Awaits[s] # {}
  PROVE  /\ SessionInv' /\ screen' = s /\ Typed(issued)
         /\ UNCHANGED <<capable, menu, lease, handoff, auth, restored>>
  <1>1. /\ screen' = s /\ Press(issued)
        /\ UNCHANGED <<sessionVars, leaseVars, checkVars, endVars, polls>>
    BY DEF Moves
  <1>2. OtherTypeOK' /\ (exempt' => lease')
    BY <1>1 DEF IInv, SessionInv, LeaseAccountedFor, TypeOK, OtherTypeOK, sessionVars,
       leaseVars, checkVars, endVars
  <1> QED
    BY <1>1, <1>2, KeptByKey DEF sessionVars, leaseVars, endVars

\* What the steps of an installation leave as it was.
LEMMA InstallFlow ==
  ASSUME TypeOK, TypeOK', FlowInv,
         screen \in InstallScreens \/ \E m \in InstallMessages : inflight[m] > 0,
         \A k \in Messages \ InstallMessages : inflight'[k] = inflight[k],
         screen' \in InstallScreens \/ screen' = screen \/ (screen' = "Result" /\ ~lease),
         again => again', UNCHANGED <<capable, menu, lease, handoff, auth, restored>>
  PROVE  FlowInv'
  <1> SUFFICES ASSUME ~again' PROVE StartInv' /\ PlainInv' /\ EarlyInv' /\ LateInv'
    BY DEF FlowInv
  <1>1. StartInv /\ PlainInv /\ EarlyInv /\ LateInv
    BY DEF FlowInv
  <1>2. InstallMessages \subseteq Messages
    BY DEF InstallMessages, Messages, Commands, Immediate
  <1>3. screen \notin {"Splash", "Detecting"}
    BY <1>1, <1>2 DEF StartInv, None, AtMostOne, InstallMessages, InstallScreens
  <1>4. StartInv'
    BY <1>1, <1>3 DEF StartInv, None, InstallMessages, InstallScreens, Messages, Commands,
       Immediate
  <1>5. PlainInv'
    BY <1>1 DEF PlainInv, None, Migrating, InstallMessages, InstallScreens, MigrationMessages,
       MigrationScreens, Messages, Commands, Immediate, Results
  <1>6. ~(Migrating /\ Early)
    BY <1>1, <1>2 DEF EarlyInv, None, Early, EarlyScreens, Stale, EarlyAwaited, InstallMessages,
       InstallScreens
  <1>7. EarlyInv' /\ (Migrating => ~Early')
    BY <1>6 DEF EarlyInv, Early, Migrating, EarlyScreens, InstallScreens
  <1>8. LateInv'
    <2>1. Migrating => None(Gone)'
      BY <1>1, <1>6 DEF LateInv, None, Gone, InstallMessages, Messages, Commands, Immediate,
         Results
    <2>2. \A k \in {"RecoveryVerified", "RecoveryUnproven", "SuccessCompleted", "HealthTick",
                    "InstallSuccess", "completeSuccess", "RestoreSucceeded"} :
              inflight'[k] = inflight[k]
      BY DEF InstallMessages, Messages, Commands, Immediate, Results
    <2> QED
      BY <1>1, <1>6, <2>1, <2>2 DEF LateInv, Migrating, InstallScreens, LateScreens
  <1> QED
    BY <1>4, <1>5, <1>7, <1>8

\* An installation's message leads on within the installation, or to its result when
\* there is no lease: what the invariant says of a migration is not touched.
LEMMA InstallKept ==
  ASSUME IInv, NEW m \in InstallMessages \ {"BootstrapComplete"},
         NEW issued \in SUBSET InstallMessages, Handle(m, issued), OtherTypeOK',
         UNCHANGED <<capable, prompt, menu, leaseVars, checkVars, over>>,
         screen' \in InstallScreens \/ screen' = screen \/ (screen' = "Result" /\ ~lease),
         screen' \in DOMAIN Awaits =>
             \/ issued \intersect Awaits[screen'] # {}
             \/ screen' = screen /\ m \notin Awaits[screen]
  PROVE  IInv'
  <1>1. InstallMessages \subseteq Messages
    BY DEF InstallMessages, Messages, Commands, Immediate
  <1>2. exempt' => lease'
    BY DEF IInv, SessionInv, LeaseAccountedFor, leaseVars
  <1>3. SessionInv' /\ Delivered(m, issued)
    BY <1>1, <1>2, Kept DEF leaseVars
  <1>4. /\ inflight[m] > 0 /\ again' = again
        /\ \A k \in Messages \ InstallMessages : inflight'[k] = inflight[k]
    BY <1>1, <1>3 DEF Delivered
  <1>5. FlowInv'
    BY <1>3, <1>4, InstallFlow DEF IInv, SessionInv, leaseVars
  <1> QED
    BY <1>3, <1>5 DEF IInv

\* The same for a message that only changes the screen.
LEMMA InstallMoved ==
  ASSUME IInv, NEW m \in InstallMessages \ {"BootstrapComplete"}, NEW s \in Screens,
         NEW issued \in SUBSET InstallMessages, Moves(Handle(m, issued), s),
         s \in InstallScreens \union {screen},
         s \in DOMAIN Awaits =>
             \/ issued \intersect Awaits[s] # {}
             \/ s = screen /\ m \notin Awaits[screen]
  PROVE  IInv'
  <1>1. InstallMessages \subseteq Messages
    BY DEF InstallMessages, Messages, Commands, Immediate
  <1>2. /\ SessionInv' /\ screen' = s /\ Delivered(m, issued)
        /\ UNCHANGED <<capable, menu, lease, handoff, auth, restored>>
    BY <1>1, Moved
  <1>3. /\ inflight[m] > 0 /\ again' = again
        /\ \A k \in Messages \ InstallMessages : inflight'[k] = inflight[k]
    BY <1>1, <1>2 DEF Delivered
  <1>4. FlowInv'
    BY <1>2, <1>3, InstallFlow DEF IInv, SessionInv
  <1> QED
    BY <1>2, <1>4 DEF IInv

\* The same for a key.
LEMMA InstallMovedByKey ==
  ASSUME IInv, NEW s \in Screens, NEW issued \in SUBSET InstallMessages,
         Moves(Press(issued), s), screen \in InstallScreens, s \in InstallScreens,
         s \in DOMAIN Awaits => s = screen \/ issued \intersect Awaits[s] # {}
  PROVE  IInv'
  <1>1. InstallMessages \subseteq Messages
    BY DEF InstallMessages, Messages, Commands, Immediate
  <1>2. /\ SessionInv' /\ screen' = s /\ Typed(issued)
        /\ UNCHANGED <<capable, menu, lease, handoff, auth, restored>>
    BY <1>1, MovedByKey
  <1>3. /\ again => again'
        /\ \A k \in Messages \ InstallMessages : inflight'[k] = inflight[k]
    BY <1>1, <1>2 DEF Typed
  <1>4. FlowInv'
    BY <1>2, <1>3, InstallFlow DEF IInv, SessionInv
  <1> QED
    BY <1>2, <1>4 DEF IInv

\* A message that is dropped leaves the rest as it was.
LEMMA IgnoredStep ==
  ASSUME IInv, Ignored
  PROVE  IInv'
  <1>1. PICK m \in Messages : screen \notin TakenOn(m) /\ Moves(Handle(m, {}), screen)
    BY DEF Ignored
  <1>2. TypeOK /\ FlowInv
    BY DEF IInv, SessionInv
  <1>3. screen \in DOMAIN Awaits => m \notin Awaits[screen]
    BY <1>1, <1>2, AwaitedIsTaken
  <1>4. m # "BootstrapComplete" /\ screen \in Screens
    BY <1>1, <1>2 DEF TakenOn, TypeOK, Offers
  <1>5. /\ SessionInv' /\ screen' = screen /\ Delivered(m, {})
        /\ UNCHANGED <<capable, menu, lease, handoff, auth, restored>>
    BY <1>1, <1>3, <1>4, Moved
  <1>6. /\ inflight[m] > 0 /\ again' = again /\ inflight \in [Messages -> Nat]
        /\ \A k \in Messages : k # m => inflight'[k] = inflight[k]
        /\ inflight'[m] = inflight[m] - 1
    BY <1>5 DEF Delivered
  <1>7. FlowInv'
    <2> SUFFICES ASSUME ~again PROVE StartInv' /\ PlainInv' /\ EarlyInv' /\ LateInv'
      BY <1>6 DEF FlowInv
    <2>1. StartInv /\ PlainInv /\ EarlyInv /\ LateInv
      BY <1>2 DEF FlowInv
    <2>2. \A k \in Messages : inflight'[k] \in Nat /\ inflight'[k] <= inflight[k]
      BY <1>6
    <2>3. \A S \in SUBSET Messages : /\ None(S) => None(S)'
                                     /\ AtMostOne(S) => AtMostOne(S)'
      BY <1>6, <2>2 DEF None, AtMostOne
    <2>4. StartInv'
      <3>1. {"DetectionStarted"} \in SUBSET Messages /\ {"detect"} \in SUBSET Messages
            /\ {"DetectionStarted", "detect"} \in SUBSET Messages
        BY DEF Messages, Immediate, Commands
      <3> QED
        BY <1>5, <2>1, <2>3, <3>1 DEF StartInv
    <2>5. PlainInv'
      <3>1. MigrationMessages \in SUBSET Messages
        BY DEF MigrationMessages, Messages, Immediate, Commands, Results
      <3> QED
        BY <1>5, <2>1, <2>3, <3>1 DEF PlainInv, Migrating
    <2>6. EarlyInv'
      <3> SUFFICES ASSUME Migrating, Early
                   PROVE  EarlyInv'
        BY <1>5 DEF EarlyInv, Migrating, Early
      <3>1. EarlyAwaited \in SUBSET Messages
        BY DEF EarlyAwaited, Messages, Commands, Results
      <3>2. m \notin EarlyAwaited
        BY <1>3, <1>6, <2>1 DEF EarlyInv
      <3>3. \A k \in EarlyAwaited : inflight'[k] = inflight[k]
        BY <1>6, <3>1, <3>2
      <3>4. "LeaseGranted" \in EarlyAwaited /\ "LeaseAfterFailure" \in EarlyAwaited
        BY DEF EarlyAwaited
      <3>5. (Messages \ (Stale \union EarlyAwaited)) \in SUBSET Messages
        OBVIOUS
      <3> QED
        BY <1>5, <2>1, <2>3, <3>1, <3>3, <3>4, <3>5 DEF EarlyInv
    <2>7. LateInv'
      <3>1. Gone \in SUBSET Messages
        BY DEF Gone, Messages, Immediate, Commands, Results
      <3>2. \A k \in {"RecoveryVerified", "RecoveryUnproven", "SuccessCompleted", "HealthTick",
                    "InstallSuccess", "completeSuccess", "RestoreSucceeded"} :
                inflight'[k] > 0 => inflight[k] > 0
        BY <2>2, <1>6 DEF Messages, Immediate, Commands, Results
      <3> QED
        BY <1>5, <2>1, <2>3, <3>1, <3>2 DEF LateInv, Migrating, Early
    <2> QED
      BY <2>4, <2>5, <2>6, <2>7
  <1> QED
    BY <1>5, <1>7 DEF IInv

-----------------------------------------------------------------------------
(* The installation.                                                        *)

\* Steps of an installation that only change the screen.
LEMMA InstallMovesStep ==
  ASSUME IInv,
         \/ BootstrapSkipped \/ PreflightPassed \/ WorkspaceEntered \/ PortsConfirmed
         \/ EnvWritten \/ AsteriskSetupCompleted \/ PullStarted \/ DeployStarted
  PROVE  IInv'
  <1> USE DEF InstallMessages, InstallScreens
  <1>1. screen \in Screens
    BY DEF IInv, SessionInv, TypeOK
  <1>2. CASE BootstrapSkipped
    <2>1. Moves(Handle("BootstrapSkipped", {}), "Preflight")
      BY <1>2 DEF BootstrapSkipped
    <2>2. "Preflight" \in Screens /\ {} \in SUBSET InstallMessages
      BY <1>1 DEF Screens, Awaits
    <2> QED
      BY <2>1, <2>2, InstallMoved DEF Awaits
  <1>3. CASE PreflightPassed
    <2>1. Moves(Handle("PreflightPassed", {}), "WorkspaceInput")
      BY <1>3 DEF PreflightPassed
    <2>2. "WorkspaceInput" \in Screens /\ {} \in SUBSET InstallMessages
      BY <1>1 DEF Screens, Awaits
    <2> QED
      BY <2>1, <2>2, InstallMoved DEF Awaits
  <1>4. CASE WorkspaceEntered
    <2>1. Moves(Handle("WorkspaceEntered", {}), "OptionalPackages")
      BY <1>4 DEF WorkspaceEntered
    <2>2. "OptionalPackages" \in Screens /\ {} \in SUBSET InstallMessages
      BY <1>1 DEF Screens, Awaits
    <2> QED
      BY <2>1, <2>2, InstallMoved DEF Awaits
  <1>5. CASE PortsConfirmed
    <2>1. Moves(Handle("PortsConfirmed", {"envWrite"}), "EnvWrite")
      BY <1>5 DEF PortsConfirmed
    <2>2. "EnvWrite" \in Screens /\ {"envWrite"} \in SUBSET InstallMessages
      BY <1>1 DEF Screens, Awaits
    <2> QED
      BY <2>1, <2>2, InstallMoved DEF Awaits
  <1>6. CASE EnvWritten
    <2>1. {"asterisk"} \in SUBSET InstallMessages /\ {"pull"} \in SUBSET InstallMessages
      OBVIOUS
    <2>2. "AsteriskSetup" \in Screens /\ "Pull" \in Screens
      BY DEF Screens, Awaits
    <2>3. CASE Moves(Handle("envWrite", {"asterisk"}), "AsteriskSetup")
      BY <2>1, <2>2, <2>3, InstallMoved DEF Awaits
    <2>4. CASE Moves(Handle("envWrite", {"pull"}), "Pull")
      BY <2>1, <2>2, <2>4, InstallMoved DEF Awaits
    <2> QED
      BY <1>6, <2>3, <2>4 DEF EnvWritten
  <1>7. CASE AsteriskSetupCompleted
    <2>1. Moves(Handle("asterisk", {"PullStarted"}), screen)
      BY <1>7 DEF AsteriskSetupCompleted
    <2>2. screen \in Screens /\ {"PullStarted"} \in SUBSET InstallMessages
      BY <1>1 DEF Screens, Awaits
    <2> QED
      BY <2>1, <2>2, InstallMoved DEF Awaits
  <1>8. CASE PullStarted
    <2>1. Moves(Handle("PullStarted", {"pull"}), "Pull")
      BY <1>8 DEF PullStarted
    <2>2. "Pull" \in Screens /\ {"pull"} \in SUBSET InstallMessages
      BY <1>1 DEF Screens, Awaits
    <2> QED
      BY <2>1, <2>2, InstallMoved DEF Awaits
  <1>9. CASE DeployStarted
    <2>1. Moves(Handle("DeployStarted", {"up"}), "Deploy")
      BY <1>9 DEF DeployStarted
    <2>2. "Deploy" \in Screens /\ {"up"} \in SUBSET InstallMessages
      BY <1>1 DEF Screens, Awaits
    <2> QED
      BY <2>1, <2>2, InstallMoved DEF Awaits
  <1> QED
    BY <1>2, <1>3, <1>4, <1>5, <1>6, <1>7, <1>8, <1>9

\* The preflight's report leads to the bootstrap screen only with fixes not yet run.
LEMMA PreflightStep ==
  ASSUME IInv, PreflightResult
  PROVE  IInv'
  <1>1. PICK fixable \in SUBSET faults, nonFixable \in BOOLEAN :
            LET fresh == fixable \ attempted
                offered == ~nonFixable /\ fresh # {}
            IN /\ Handle("preflight", {})
               /\ report' = IF nonFixable \/ fixable # {} THEN "blocked" ELSE "clear"
               /\ screen' = IF offered THEN "Bootstrap" ELSE screen
               /\ boot' = IF offered
                             THEN [mode |-> "confirming", all |-> fresh, left |-> fresh]
                             ELSE boot
               /\ UNCHANGED <<sessionVars, leaseVars, attempted, ran, endVars, polls>>
    BY DEF PreflightResult
  <1>2. TypeOK /\ NoScreenIsStuck /\ FixInv /\ FlowInv /\ LeaseAccountedFor
    BY DEF IInv, SessionInv
  <1>3. "preflight" \in Messages
    BY DEF Messages, Commands
  <1>4. /\ ~over /\ inflight["preflight"] > 0 /\ again' = again /\ hasty' = hasty
        /\ (Overtaken => "preflight" \in Immediate) /\ inflight' \in [Messages -> Nat]
        /\ \A k \in Messages : k # "preflight" => inflight'[k] = inflight[k]
    BY <1>1, <1>2, <1>3, Handled DEF Delivered
  <1>5. screen' = screen \/ screen' = "Bootstrap"
    BY <1>1
  <1>6. TypeOK'
    <2>1. fixable \ attempted \in SUBSET Fixes
      BY <1>2 DEF TypeOK
    <2>2. boot' \in [mode : {"idle", "confirming", "executing"},
                     all : SUBSET Fixes, left : SUBSET Fixes]
      BY <1>1, <1>2, <2>1 DEF TypeOK
    <2>3. screen' \in Screens /\ report' \in {"none", "clear", "blocked"}
      BY <1>1, <1>2, <1>5 DEF TypeOK, Screens
    <2> QED
      BY <1>1, <1>2, <1>4, <2>2, <2>3 DEF TypeOK, sessionVars, leaseVars, endVars
  <1>7. NoScreenIsStuck'
    <2>1. "Bootstrap" \notin DOMAIN Awaits
          /\ \A s \in DOMAIN Awaits : Awaits[s] \subseteq Messages \ {"preflight"}
      BY DEF Awaits, Messages, Commands, Immediate, Results
    <2> QED
      BY <1>2, <1>4, <1>5, <2>1 DEF NoScreenIsStuck
  <1>8. LeaseAccountedFor'
    BY <1>1, <1>2, <1>4 DEF LeaseAccountedFor, leaseVars, endVars
  <1>9. FixInv'
    <2> SUFFICES ASSUME prompt
                 PROVE  /\ ran' \subseteq attempted' \/ inflight'["BootstrapComplete"] > 0
                        /\ ran' \subseteq attempted' \union boot'.all
                        /\ boot'.left \intersect ran' = {}
      BY <1>1 DEF FixInv, sessionVars
    <2>1. "preflight" \notin Immediate /\ "BootstrapComplete" \in Immediate
      BY DEF Immediate
    <2>2. ran \subseteq attempted
      BY <1>2, <1>4, <2>1 DEF FixInv, Overtaken
    <2>3. (fixable \ attempted) \intersect ran = {}
      BY <2>2
    <2> QED
      BY <1>1, <1>2, <2>2, <2>3 DEF FixInv
  <1>10. FlowInv'
    <2>1. "preflight" \in InstallMessages /\ "Bootstrap" \in InstallScreens
      BY DEF InstallMessages, InstallScreens
    <2> QED
      BY <1>1, <1>2, <1>4, <1>5, <1>6, <2>1, InstallFlow DEF sessionVars, leaseVars
  <1> QED
    BY <1>6, <1>7, <1>8, <1>9, <1>10 DEF IInv, SessionInv

\* A fix that ends is followed by the next one, or by the end of the bootstrap.
LEMMA FixStep ==
  ASSUME IInv, FixCompleted
  PROVE  IInv'
  <1>1. CASE screen = "Bootstrap" /\ Moves(Handle("fix", {}), screen)
    <2>1. "fix" \in InstallMessages \ {"BootstrapComplete"} /\ screen \in Screens
          /\ {} \in SUBSET InstallMessages /\ screen \notin DOMAIN Awaits
      BY <1>1 DEF InstallMessages, Screens, Awaits
    <2> QED
      BY <1>1, <2>1, InstallMoved
  <1>2. CASE /\ screen = "Bootstrap"
             /\ LET left == boot.left \ {CHOOSE a \in boot.left : TRUE}
                IN /\ Handle("fix", IF left = {} THEN {"BootstrapComplete"} ELSE {"fix"})
                   /\ boot' = [boot EXCEPT !.left = left]
                   /\ ran' = IF left = {} THEN ran \union boot.all ELSE ran
             /\ UNCHANGED <<screen, sessionVars, leaseVars, report, attempted, endVars, polls>>
    <2> DEFINE left == boot.left \ {CHOOSE a \in boot.left : TRUE}
               next == IF left = {} THEN "BootstrapComplete" ELSE "fix"
    <2>1. /\ Handle("fix", {next}) /\ boot' = [boot EXCEPT !.left = left]
          /\ ran' = IF left = {} THEN ran \union boot.all ELSE ran
          /\ UNCHANGED <<screen, sessionVars, leaseVars, report, attempted, endVars, polls>>
      <3>1. {next} = IF left = {} THEN {"BootstrapComplete"} ELSE {"fix"}
        OBVIOUS
      <3> QED
        BY <1>2, <3>1
    <2>2. left \subseteq boot.left /\ (next = "BootstrapComplete" <=> left = {})
      OBVIOUS
    <2>3. TypeOK /\ FixInv /\ FlowInv /\ LeaseAccountedFor
      BY DEF IInv, SessionInv
    <2>4. next \in {"fix", "BootstrapComplete"} /\ "fix" \in Messages
          /\ "BootstrapComplete" \in Messages
      BY DEF Messages, Commands, Immediate
    <2> HIDE DEF left, next
    <2>5. /\ ~over /\ inflight["fix"] > 0 /\ again' = again /\ hasty' = hasty
          /\ (Overtaken => "fix" \in Immediate) /\ inflight' \in [Messages -> Nat]
          /\ \A k \in Messages \ {"fix", "BootstrapComplete"} : inflight'[k] = inflight[k]
          /\ inflight'[next] > 0
      BY <2>1, <2>3, <2>4, Handled DEF Delivered
    <2>6. TypeOK'
      <3>1. boot' \in [mode : {"idle", "confirming", "executing"},
                       all : SUBSET Fixes, left : SUBSET Fixes]
        BY <2>1, <2>2, <2>3 DEF TypeOK
      <3>2. ran' \in SUBSET Fixes
        BY <2>1, <2>3 DEF TypeOK
      <3> QED
        BY <2>1, <2>3, <2>5, <3>1, <3>2 DEF TypeOK, sessionVars, leaseVars, endVars
    <2>7. NoScreenIsStuck'
      BY <1>2 DEF NoScreenIsStuck, Awaits
    <2>8. LeaseAccountedFor'
      BY <2>1, <2>3, <2>5 DEF LeaseAccountedFor, leaseVars, endVars
    <2>9. FixInv'
      <3> SUFFICES ASSUME prompt
                   PROVE  /\ ran' \subseteq attempted' \/ inflight'["BootstrapComplete"] > 0
                          /\ ran' \subseteq attempted' \union boot'.all
                          /\ boot'.left \intersect ran' = {}
        BY <2>1 DEF FixInv, sessionVars
      <3>1. "fix" \notin Immediate /\ "BootstrapComplete" \in Immediate
        BY DEF Immediate
      <3>2. ran \subseteq attempted /\ boot.left \intersect ran = {}
        BY <2>3, <2>5, <3>1 DEF FixInv, Overtaken
      <3>3. boot'.all = boot.all /\ boot'.left = left
        BY <2>1, <2>3 DEF TypeOK
      <3>4. CASE left = {}
        BY <2>1, <2>2, <2>5, <3>2, <3>3, <3>4
      <3>5. CASE left # {}
        BY <2>1, <2>2, <3>2, <3>3, <3>5
      <3> QED
        BY <3>4, <3>5
    <2>10. FlowInv'
      <3>1. "fix" \in InstallMessages /\ "BootstrapComplete" \in InstallMessages
        BY DEF InstallMessages
      <3> QED
        BY <2>1, <2>3, <2>5, <2>6, <3>1, InstallFlow DEF sessionVars, leaseVars
    <2> QED
      BY <2>6, <2>7, <2>8, <2>9, <2>10 DEF IInv, SessionInv
  <1> QED
    BY <1>1, <1>2 DEF FixCompleted

\* A bootstrap that has ended is remembered before the checks run again.
LEMMA BootstrapCompletedStep ==
  ASSUME IInv, BootstrapCompleted
  PROVE  IInv'
  <1>1. /\ Handle("BootstrapComplete", {"preflight"}) /\ screen' = "Preflight"
        /\ attempted' = attempted \union boot.all /\ report' = "none"
        /\ UNCHANGED <<sessionVars, leaseVars, boot, ran, endVars, polls>>
    BY DEF BootstrapCompleted
  <1>2. TypeOK /\ FixInv /\ FlowInv /\ LeaseAccountedFor
    BY DEF IInv, SessionInv
  <1>3. "preflight" \in Messages /\ "BootstrapComplete" \in Messages
    BY DEF Messages, Commands, Immediate
  <1>4. /\ ~over /\ inflight["BootstrapComplete"] > 0 /\ again' = again /\ hasty' = hasty
        /\ inflight' \in [Messages -> Nat]
        /\ \A k \in Messages \ {"preflight", "BootstrapComplete"} :
               inflight'[k] = inflight[k]
    BY <1>1, <1>2, <1>3, Handled DEF Delivered
  <1>5. TypeOK'
    BY <1>1, <1>2, <1>4 DEF TypeOK, sessionVars, leaseVars, endVars, Screens
  <1>6. NoScreenIsStuck'
    BY <1>1 DEF NoScreenIsStuck, Awaits
  <1>7. LeaseAccountedFor'
    BY <1>1, <1>2, <1>4 DEF LeaseAccountedFor, leaseVars, endVars
  <1>8. FixInv'
    BY <1>1, <1>2 DEF FixInv, sessionVars
  <1>9. FlowInv'
    <2>1. "preflight" \in InstallMessages /\ "BootstrapComplete" \in InstallMessages
          /\ "Preflight" \in InstallScreens
      BY DEF InstallMessages, InstallScreens
    <2> QED
      BY <1>1, <1>2, <1>4, <1>5, <2>1, InstallFlow DEF sessionVars, leaseVars
  <1> QED
    BY <1>5, <1>6, <1>7, <1>8, <1>9 DEF IInv, SessionInv

\* The choice of the optional packages starts the port scan.
LEMMA PackagesStep ==
  ASSUME IInv, PackagesConfirmed
  PROVE  IInv'
  <1> USE DEF PackagesConfirmed
  <1>1. OtherTypeOK'
    BY DEF IInv, SessionInv, TypeOK, OtherTypeOK, leaseVars, endVars, Screens
  <1>2. "PackagesConfirmed" \in InstallMessages /\ {"portScan"} \in SUBSET InstallMessages
        /\ "PortScan" \in InstallScreens /\ "PortScan" \notin DOMAIN Awaits
    BY DEF InstallMessages, InstallScreens, Awaits
  <1> QED
    BY <1>1, <1>2, InstallKept DEF endVars

\* The result of the port scan is confirmed at once or asks for other ports.
LEMMA PortsStep ==
  ASSUME IInv, PortsScanned
  PROVE  IInv'
  <1>1. screen = "PortScan"
    BY DEF PortsScanned
  <1>2. "portScan" \in InstallMessages /\ {"PortsConfirmed"} \in SUBSET InstallMessages
        /\ {} \in SUBSET InstallMessages /\ screen \in InstallScreens
        /\ screen \in Screens /\ screen \notin DOMAIN Awaits
    BY <1>1 DEF InstallMessages, InstallScreens, Screens, Awaits
  <1>3. CASE Moves(Handle("portScan", {"PortsConfirmed"}), screen)
    BY <1>2, <1>3, InstallMoved
  <1>4. CASE /\ Handle("portScan", {}) /\ resolving' = TRUE
             /\ UNCHANGED <<screen, capable, prompt, faults, menu, docker, asterisk, leaseVars,
                            checkVars, endVars, polls>>
    <2>1. OtherTypeOK'
      BY <1>4 DEF IInv, SessionInv, TypeOK, OtherTypeOK, leaseVars, endVars
    <2> QED
      BY <1>2, <1>4, <2>1, InstallKept DEF endVars
  <1> QED
    BY <1>3, <1>4 DEF PortsScanned

\* Without a lease a failure ends the installation.
LEMMA InstallationFailedStep ==
  ASSUME IInv, ~lease, NEW m \in {"envWrite", "asterisk", "pull", "up", "InstallFailure"},
         Handle(m, {}), screen' = "Result", outcome' = "failed",
         UNCHANGED <<sessionVars, leaseVars, checkVars, over, polls>>
  PROVE  IInv'
  <1>1. OtherTypeOK'
    BY DEF IInv, SessionInv, TypeOK, OtherTypeOK, sessionVars, leaseVars, Screens
  <1>2. m \in InstallMessages \ {"BootstrapComplete"} /\ "Result" \notin DOMAIN Awaits
    BY DEF InstallMessages, Awaits
  <1> QED
    BY <1>1, <1>2, InstallKept DEF sessionVars

\* The keys: the last conflict is resolved; the fixes are confirmed or skipped.
LEMMA PortResolvedStep ==
  ASSUME IInv, screen = "PortScan", Press({"PortsConfirmed"}), resolving' = FALSE,
         UNCHANGED <<screen, capable, prompt, faults, menu, docker, asterisk, leaseVars,
                     checkVars, endVars, polls>>
  PROVE  IInv'
  <1>1. OtherTypeOK' /\ (exempt' => lease')
    <2>1. {capable, prompt, lease, restored, exempt, resolving, asterisk, interrupted,
           over}' \subseteq BOOLEAN
      BY DEF IInv, SessionInv, TypeOK, leaseVars, endVars
    <2> QED
      BY <2>1 DEF IInv, SessionInv, TypeOK, LeaseAccountedFor, OtherTypeOK, leaseVars, endVars
  <1>2. {"PortsConfirmed"} \in SUBSET Messages /\ "PortsConfirmed" \in InstallMessages
    BY DEF InstallMessages, Messages, Immediate
  <1>3. SessionInv' /\ Typed({"PortsConfirmed"})
    BY <1>1, <1>2, KeptByKey DEF endVars
  <1>4. FlowInv'
    BY <1>2, <1>3, InstallFlow DEF IInv, SessionInv, leaseVars, Typed, InstallScreens
  <1> QED
    BY <1>3, <1>4 DEF IInv

\* The operator starts the fixes or skips them.
LEMMA BootstrapKeyStep ==
  ASSUME IInv, BootstrapKey
  PROVE  IInv'
  <1>1. screen = "Bootstrap"
    BY DEF BootstrapKey
  <1>2. screen \in Screens /\ screen \notin DOMAIN Awaits /\ screen \in InstallScreens
        /\ {"BootstrapSkipped"} \in SUBSET InstallMessages /\ "fix" \in InstallMessages
    BY <1>1 DEF InstallMessages, InstallScreens, Screens, Awaits
  <1>3. CASE Moves(Press({"BootstrapSkipped"}), screen)
    BY <1>2, <1>3, InstallMovedByKey
  <1>4. CASE /\ Press({"fix"}) /\ boot' = [boot EXCEPT !.mode = "executing"]
             /\ UNCHANGED <<screen, sessionVars, leaseVars, report, attempted, ran, endVars,
                            polls>>
    <2>1. TypeOK /\ LeaseAccountedFor /\ FixInv /\ FlowInv
      BY DEF IInv, SessionInv
    <2>2. Typed({"fix"})
      BY <1>4, <2>1, Pressed
    <2>3. boot' \in [mode : {"idle", "confirming", "executing"},
                     all : SUBSET Fixes, left : SUBSET Fixes]
          /\ boot'.all = boot.all /\ boot'.left = boot.left
      BY <1>4, <2>1 DEF TypeOK
    <2>4. TypeOK'
      BY <1>4, <2>1, <2>2, <2>3 DEF TypeOK, Typed, sessionVars, leaseVars, endVars
    <2>5. NoScreenIsStuck'
      BY <1>2, <1>4 DEF NoScreenIsStuck
    <2>6. LeaseAccountedFor'
      BY <1>4, <2>1, <2>2 DEF LeaseAccountedFor, Typed, leaseVars, endVars
    <2>7. FixInv'
      <3>1. inflight["BootstrapComplete"] > 0 => inflight'["BootstrapComplete"] > 0
        BY <2>2 DEF Messages, Immediate, Typed
      <3> QED
        BY <1>4, <2>1, <2>3, <3>1 DEF FixInv, sessionVars
    <2>8. FlowInv'
      BY <1>2, <1>4, <2>1, <2>2, <2>4, InstallFlow DEF Typed, sessionVars, leaseVars
    <2> QED
      BY <2>4, <2>5, <2>6, <2>7, <2>8 DEF IInv, SessionInv
  <1> QED
    BY <1>3, <1>4 DEF BootstrapKey

-----------------------------------------------------------------------------
(* The order of a session.                                                  *)

\* The messages that the invariants speak of are messages.
LEMMA SetsOfMessages ==
  /\ MigrationMessages \subseteq Messages /\ EarlyAwaited \subseteq Messages
  /\ Stale \subseteq Messages /\ Gone \subseteq Messages
  /\ "DetectionStarted" \in Messages /\ "detect" \in Messages
  /\ "HealthTick" \in Messages /\ "InstallSuccess" \in Messages
  BY DEF MigrationMessages, EarlyAwaited, Stale, Gone, Messages, Commands, Immediate, Results

USE DEF StartInv, PlainInv, EarlyInv, LateInv, None, AtMostOne, Migrating, Early, EarlyScreens,
        EarlyAwaited, Stale, Gone, LateScreens, MigrationMessages, MigrationScreens

\* One detection leads to the menu.
LEMMA DetectionStep ==
  ASSUME IInv, DetectionStarted \/ DetectionCompleted
  PROVE  IInv'
  <1>1. CASE Moves(Handle("DetectionStarted", {"detect"}), "Detecting")
    <2>1. /\ "DetectionStarted" \in Messages \ {"BootstrapComplete"} /\ "Detecting" \in Screens
          /\ {"detect"} \in SUBSET Messages
          /\ "Detecting" \in DOMAIN Awaits => {"detect"} \intersect Awaits["Detecting"] # {}
      BY <1>1 DEF Messages, Commands, Immediate, Results, Screens, Awaits
    <2>2. /\ SessionInv' /\ screen' = "Detecting" /\ Delivered("DetectionStarted", {"detect"})
          /\ UNCHANGED <<capable, menu, lease, handoff, auth, restored>>
      BY <1>1, <2>1, Moved
    <2> QED
      BY <1>1, <2>2, SetsOfMessages DEF IInv, FlowInv, Awaits, Delivered
  <1>2. CASE /\ Handle("detect", {})
             /\ screen' = "ContextMenu"
             /\ menu' \in DOMAIN Offers \ {"none"}
             /\ UNCHANGED <<capable, prompt, faults, docker, resolving, asterisk, leaseVars,
                            checkVars, endVars, polls>>
    <2>1. OtherTypeOK' /\ (exempt' => lease')
      BY <1>2 DEF IInv, SessionInv, TypeOK, LeaseAccountedFor, OtherTypeOK, Screens, Awaits,
         sessionVars, leaseVars, checkVars, endVars
    <2>2. /\ "detect" \in Messages \ {"BootstrapComplete"} /\ {} \in SUBSET Messages
          /\ screen' \in DOMAIN Awaits =>
                 \/ {} \intersect Awaits[screen'] # {}
                 \/ screen' = screen /\ "detect" \notin Awaits[screen]
      BY <1>2 DEF Messages, Commands, Immediate, Results, Screens, Awaits
    <2>3. SessionInv' /\ Delivered("detect", {})
      BY <1>2, <2>1, <2>2, Kept DEF sessionVars, endVars
    <2> QED
      BY <1>2, <2>3, SetsOfMessages DEF IInv, FlowInv, Awaits, Delivered, sessionVars,
         leaseVars, endVars
  <1> QED
    BY <1>1, <1>2 DEF DetectionStarted, DetectionCompleted

\* The choice from the menu starts an installation, an update or a migration.
LEMMA ContextActionStep ==
  ASSUME IInv, NEW action \in UNION {Offers[d] : d \in DOMAIN Offers},
         ContextActionSelected(action)
  PROVE  IInv'
  <1>1. screen = "ContextMenu" /\ action \in Offers[menu] /\ menu \in DOMAIN Offers
    BY DEF ContextActionSelected, IInv, SessionInv, TypeOK
  <1>2. /\ action = "UpdateSelected" \/ action = "UninstallSelected" => menu = "Current"
        /\ action = "MigrationSelected" => menu = "LegacyPM2"
        /\ action = "InstallSelected" => menu = "NotInstalled"
    BY <1>1 DEF Offers
  <1>3. CASE /\ Handle("InstallSelected", {"authenticate"})
             /\ screen' = "DockerAuth" /\ docker' = "InstallSelected" /\ menu = "NotInstalled"
             /\ UNCHANGED <<capable, prompt, faults, menu, resolving, asterisk, leaseVars,
                            checkVars, endVars, polls>>
    <2>1. OtherTypeOK' /\ (exempt' => lease')
      BY <1>3 DEF IInv, SessionInv, TypeOK, LeaseAccountedFor, OtherTypeOK, Screens, Awaits,
         sessionVars, leaseVars, checkVars, endVars
    <2>2. /\ "InstallSelected" \in Messages \ {"BootstrapComplete"}
          /\ {"authenticate"} \in SUBSET Messages
          /\ screen' \in DOMAIN Awaits =>
                 \/ {"authenticate"} \intersect Awaits[screen'] # {}
                 \/ screen' = screen /\ "InstallSelected" \notin Awaits[screen]
      BY <1>3 DEF Messages, Commands, Immediate, Results, Screens, Awaits
    <2>3. SessionInv' /\ Delivered("InstallSelected", {"authenticate"})
      BY <1>3, <2>1, <2>2, Kept DEF sessionVars, endVars
    <2> QED
      BY <1>3, <2>3, SetsOfMessages DEF IInv, FlowInv, Awaits, Delivered, sessionVars,
         leaseVars, endVars
  <1>4. CASE /\ Handle("UpdateSelected", {"authenticate"})
             /\ screen' = "DockerAuth" /\ docker' = "UpdateSelected" /\ menu = "Current"
             /\ UNCHANGED <<capable, prompt, faults, menu, resolving, asterisk, leaseVars,
                            checkVars, endVars, polls>>
    <2>1. OtherTypeOK' /\ (exempt' => lease')
      BY <1>4 DEF IInv, SessionInv, TypeOK, LeaseAccountedFor, OtherTypeOK, Screens, Awaits,
         sessionVars, leaseVars, checkVars, endVars
    <2>2. /\ "UpdateSelected" \in Messages \ {"BootstrapComplete"}
          /\ {"authenticate"} \in SUBSET Messages
          /\ screen' \in DOMAIN Awaits =>
                 \/ {"authenticate"} \intersect Awaits[screen'] # {}
                 \/ screen' = screen /\ "UpdateSelected" \notin Awaits[screen]
      BY <1>4 DEF Messages, Commands, Immediate, Results, Screens, Awaits
    <2>3. SessionInv' /\ Delivered("UpdateSelected", {"authenticate"})
      BY <1>4, <2>1, <2>2, Kept DEF sessionVars, endVars
    <2> QED
      BY <1>4, <2>3, SetsOfMessages DEF IInv, FlowInv, Awaits, Delivered, sessionVars,
         leaseVars, endVars
  <1>5. CASE menu = "Current" /\ Moves(Handle("UninstallSelected", {}), "BlockedOperation")
    <2>1. /\ "UninstallSelected" \in Messages \ {"BootstrapComplete"}
          /\ "BlockedOperation" \in Screens
          /\ {} \in SUBSET Messages
          /\ "BlockedOperation" \in DOMAIN Awaits => {} \intersect Awaits["BlockedOperation"] # {}
      BY <1>5 DEF Messages, Commands, Immediate, Results, Screens, Awaits
    <2>2. /\ SessionInv' /\ screen' = "BlockedOperation" /\ Delivered("UninstallSelected", {})
          /\ UNCHANGED <<capable, menu, lease, handoff, auth, restored>>
      BY <1>5, <2>1, Moved
    <2> QED
      BY <1>5, <2>2, SetsOfMessages DEF IInv, FlowInv, Awaits, Delivered
  <1>6. CASE ~capable /\ Moves(Handle("MigrationSelected", {}), "BlockedOperation")
    <2>1. /\ "MigrationSelected" \in Messages \ {"BootstrapComplete"}
          /\ "BlockedOperation" \in Screens
          /\ {} \in SUBSET Messages
          /\ "BlockedOperation" \in DOMAIN Awaits => {} \intersect Awaits["BlockedOperation"] # {}
      BY <1>6 DEF Messages, Commands, Immediate, Results, Screens, Awaits
    <2>2. /\ SessionInv' /\ screen' = "BlockedOperation" /\ Delivered("MigrationSelected", {})
          /\ UNCHANGED <<capable, menu, lease, handoff, auth, restored>>
      BY <1>6, <2>1, Moved
    <2> QED
      BY <1>6, <2>2, SetsOfMessages DEF IInv, FlowInv, Awaits, Delivered
  <1>7. CASE /\ capable /\ screen = "ContextMenu" /\ menu = "LegacyPM2"
            /\ Moves(Handle("MigrationSelected", {}), "MigrationEnv")
    <2>1. /\ "MigrationSelected" \in Messages \ {"BootstrapComplete"}
          /\ "MigrationEnv" \in Screens
          /\ {} \in SUBSET Messages
          /\ "MigrationEnv" \in DOMAIN Awaits => {} \intersect Awaits["MigrationEnv"] # {}
      BY <1>7 DEF Messages, Commands, Immediate, Results, Screens, Awaits
    <2>2. /\ SessionInv' /\ screen' = "MigrationEnv" /\ Delivered("MigrationSelected", {})
          /\ UNCHANGED <<capable, menu, lease, handoff, auth, restored>>
      BY <1>7, <2>1, Moved
    <2> QED
      BY <1>7, <2>2, SetsOfMessages DEF IInv, FlowInv, Awaits, Delivered
  <1>8. action \in {"InstallSelected", "UpdateSelected", "UninstallSelected", "MigrationSelected"}
    BY DEF Offers
  <1> QED
    BY <1>1, <1>2, <1>3, <1>4, <1>5, <1>6, <1>7, <1>8 DEF ContextActionSelected

\* A dismissed message, the authorization for docker, and the end of an update.
LEMMA MenuStep ==
  ASSUME IInv, OperationDismissed \/ DockerAuthenticated \/ UpdateCompleted
  PROVE  IInv'
  <1>1. CASE Moves(Handle("OperationDismissed", {}), "ContextMenu")
    <2>1. /\ "OperationDismissed" \in Messages \ {"BootstrapComplete"}
          /\ "ContextMenu" \in Screens
          /\ {} \in SUBSET Messages
          /\ "ContextMenu" \in DOMAIN Awaits => {} \intersect Awaits["ContextMenu"] # {}
      BY <1>1 DEF Messages, Commands, Immediate, Results, Screens, Awaits
    <2>2. /\ SessionInv' /\ screen' = "ContextMenu" /\ Delivered("OperationDismissed", {})
          /\ UNCHANGED <<capable, menu, lease, handoff, auth, restored>>
      BY <1>1, <2>1, Moved
    <2> QED
      BY <1>1, <2>2, SetsOfMessages DEF IInv, FlowInv, Awaits, Delivered
  <1>2. CASE Moves(Handle("authenticate", {}), "DockerAuthFailed")
    <2>1. /\ "authenticate" \in Messages \ {"BootstrapComplete"} /\ "DockerAuthFailed" \in Screens
          /\ {} \in SUBSET Messages
          /\ "DockerAuthFailed" \in DOMAIN Awaits => {} \intersect Awaits["DockerAuthFailed"] # {}
      BY <1>2 DEF Messages, Commands, Immediate, Results, Screens, Awaits
    <2>2. /\ SessionInv' /\ screen' = "DockerAuthFailed" /\ Delivered("authenticate", {})
          /\ UNCHANGED <<capable, menu, lease, handoff, auth, restored>>
      BY <1>2, <2>1, Moved
    <2> QED
      BY <1>2, <2>2, SetsOfMessages DEF IInv, FlowInv, Awaits, Delivered
  <1>3. CASE Moves(Handle("authenticate", {"preflight"}), "Preflight")
    <2>1. /\ "authenticate" \in Messages \ {"BootstrapComplete"} /\ "Preflight" \in Screens
          /\ {"preflight"} \in SUBSET Messages
          /\ "Preflight" \in DOMAIN Awaits => {"preflight"} \intersect Awaits["Preflight"] # {}
      BY <1>3 DEF Messages, Commands, Immediate, Results, Screens, Awaits
    <2>2. /\ SessionInv' /\ screen' = "Preflight" /\ Delivered("authenticate", {"preflight"})
          /\ UNCHANGED <<capable, menu, lease, handoff, auth, restored>>
      BY <1>3, <2>1, Moved
    <2> QED
      BY <1>3, <2>2, SetsOfMessages DEF IInv, FlowInv, Awaits, Delivered
  <1>4. CASE Moves(Handle("authenticate", {"update"}), "Updating")
    <2>1. /\ "authenticate" \in Messages \ {"BootstrapComplete"} /\ "Updating" \in Screens
          /\ {"update"} \in SUBSET Messages
          /\ "Updating" \in DOMAIN Awaits => {"update"} \intersect Awaits["Updating"] # {}
      BY <1>4 DEF Messages, Commands, Immediate, Results, Screens, Awaits
    <2>2. /\ SessionInv' /\ screen' = "Updating" /\ Delivered("authenticate", {"update"})
          /\ UNCHANGED <<capable, menu, lease, handoff, auth, restored>>
      BY <1>4, <2>1, Moved
    <2> QED
      BY <1>4, <2>2, SetsOfMessages DEF IInv, FlowInv, Awaits, Delivered
  <1>5. CASE Moves(Handle("update", {}), "ActionResult")
    <2>1. /\ "update" \in Messages \ {"BootstrapComplete"} /\ "ActionResult" \in Screens
          /\ {} \in SUBSET Messages
          /\ "ActionResult" \in DOMAIN Awaits => {} \intersect Awaits["ActionResult"] # {}
      BY <1>5 DEF Messages, Commands, Immediate, Results, Screens, Awaits
    <2>2. /\ SessionInv' /\ screen' = "ActionResult" /\ Delivered("update", {})
          /\ UNCHANGED <<capable, menu, lease, handoff, auth, restored>>
      BY <1>5, <2>1, Moved
    <2> QED
      BY <1>5, <2>2, SetsOfMessages DEF IInv, FlowInv, Awaits, Delivered
  <1> QED
    BY <1>1, <1>2, <1>3, <1>4, <1>5 DEF OperationDismissed, DockerAuthenticated, UpdateCompleted

\* From the choice of the environment to the validated backup.
LEMMA BeforeHandoffStep ==
  ASSUME IInv, \/ EnvironmentSelected \/ MigrationAuthenticated
              \/ BackupPreflightCompleted \/ BackupCompleted
  PROVE  IInv'
  <1>1. CASE /\ screen = "MigrationEnv"
            /\ Moves(Handle("EnvironmentSelected", {"migrationAuth"}), "MigrationAuth")
    <2>1. /\ "EnvironmentSelected" \in Messages \ {"BootstrapComplete"}
          /\ "MigrationAuth" \in Screens
          /\ {"migrationAuth"} \in SUBSET Messages
          /\ "MigrationAuth" \in DOMAIN Awaits
                => {"migrationAuth"} \intersect Awaits["MigrationAuth"] # {}
      BY <1>1 DEF Messages, Commands, Immediate, Results, Screens, Awaits
    <2>2. /\ SessionInv' /\ screen' = "MigrationAuth"
          /\ Delivered("EnvironmentSelected", {"migrationAuth"})
          /\ UNCHANGED <<capable, menu, lease, handoff, auth, restored>>
      BY <1>1, <2>1, Moved
    <2> QED
      BY <1>1, <2>2, SetsOfMessages DEF IInv, FlowInv, Awaits, Delivered
  <1>2. CASE screen = "MigrationAuth" /\ Moves(Handle("migrationAuth", {}), "MigrationAuthFailed")
    <2>1. /\ "migrationAuth" \in Messages \ {"BootstrapComplete"}
          /\ "MigrationAuthFailed" \in Screens
          /\ {} \in SUBSET Messages
          /\ "MigrationAuthFailed" \in DOMAIN Awaits
                => {} \intersect Awaits["MigrationAuthFailed"] # {}
      BY <1>2 DEF Messages, Commands, Immediate, Results, Screens, Awaits
    <2>2. /\ SessionInv' /\ screen' = "MigrationAuthFailed" /\ Delivered("migrationAuth", {})
          /\ UNCHANGED <<capable, menu, lease, handoff, auth, restored>>
      BY <1>2, <2>1, Moved
    <2> QED
      BY <1>2, <2>2, SetsOfMessages DEF IInv, FlowInv, Awaits, Delivered
  <1>3. CASE /\ screen = "MigrationAuth"
            /\ Moves(Handle("migrationAuth", {"backupPreflight"}), "BackupPreflight")
    <2>1. /\ "migrationAuth" \in Messages \ {"BootstrapComplete"} /\ "BackupPreflight" \in Screens
          /\ {"backupPreflight"} \in SUBSET Messages
          /\ "BackupPreflight" \in DOMAIN Awaits
                => {"backupPreflight"} \intersect Awaits["BackupPreflight"] # {}
      BY <1>3 DEF Messages, Commands, Immediate, Results, Screens, Awaits
    <2>2. /\ SessionInv' /\ screen' = "BackupPreflight"
          /\ Delivered("migrationAuth", {"backupPreflight"})
          /\ UNCHANGED <<capable, menu, lease, handoff, auth, restored>>
      BY <1>3, <2>1, Moved
    <2> QED
      BY <1>3, <2>2, SetsOfMessages DEF IInv, FlowInv, Awaits, Delivered
  <1>4. CASE screen = "BackupPreflight" /\ Moves(Handle("backupPreflight", {}), "BackupResult")
    <2>1. /\ "backupPreflight" \in Messages \ {"BootstrapComplete"} /\ "BackupResult" \in Screens
          /\ {} \in SUBSET Messages
          /\ "BackupResult" \in DOMAIN Awaits => {} \intersect Awaits["BackupResult"] # {}
      BY <1>4 DEF Messages, Commands, Immediate, Results, Screens, Awaits
    <2>2. /\ SessionInv' /\ screen' = "BackupResult" /\ Delivered("backupPreflight", {})
          /\ UNCHANGED <<capable, menu, lease, handoff, auth, restored>>
      BY <1>4, <2>1, Moved
    <2> QED
      BY <1>4, <2>2, SetsOfMessages DEF IInv, FlowInv, Awaits, Delivered
  <1>5. CASE screen = "BackupPreflight" /\ Moves(Handle("backupPreflight", {}), "BackupConfirm")
    <2>1. /\ "backupPreflight" \in Messages \ {"BootstrapComplete"} /\ "BackupConfirm" \in Screens
          /\ {} \in SUBSET Messages
          /\ "BackupConfirm" \in DOMAIN Awaits => {} \intersect Awaits["BackupConfirm"] # {}
      BY <1>5 DEF Messages, Commands, Immediate, Results, Screens, Awaits
    <2>2. /\ SessionInv' /\ screen' = "BackupConfirm" /\ Delivered("backupPreflight", {})
          /\ UNCHANGED <<capable, menu, lease, handoff, auth, restored>>
      BY <1>5, <2>1, Moved
    <2> QED
      BY <1>5, <2>2, SetsOfMessages DEF IInv, FlowInv, Awaits, Delivered
  <1>6. CASE screen = "BackupRunning" /\ Moves(Handle("backup", {}), "BackupResult")
    <2>1. /\ "backup" \in Messages \ {"BootstrapComplete"} /\ "BackupResult" \in Screens
          /\ {} \in SUBSET Messages
          /\ "BackupResult" \in DOMAIN Awaits => {} \intersect Awaits["BackupResult"] # {}
      BY <1>6 DEF Messages, Commands, Immediate, Results, Screens, Awaits
    <2>2. /\ SessionInv' /\ screen' = "BackupResult" /\ Delivered("backup", {})
          /\ UNCHANGED <<capable, menu, lease, handoff, auth, restored>>
      BY <1>6, <2>1, Moved
    <2> QED
      BY <1>6, <2>2, SetsOfMessages DEF IInv, FlowInv, Awaits, Delivered
  <1>7. CASE screen = "BackupRunning" /\ Moves(Handle("backup", {}), "MigrationConfirm")
    <2>1. /\ "backup" \in Messages \ {"BootstrapComplete"} /\ "MigrationConfirm" \in Screens
          /\ {} \in SUBSET Messages
          /\ "MigrationConfirm" \in DOMAIN Awaits => {} \intersect Awaits["MigrationConfirm"] # {}
      BY <1>7 DEF Messages, Commands, Immediate, Results, Screens, Awaits
    <2>2. /\ SessionInv' /\ screen' = "MigrationConfirm" /\ Delivered("backup", {})
          /\ UNCHANGED <<capable, menu, lease, handoff, auth, restored>>
      BY <1>7, <2>1, Moved
    <2> QED
      BY <1>7, <2>2, SetsOfMessages DEF IInv, FlowInv, Awaits, Delivered
  <1> QED
    BY <1>1, <1>2, <1>3, <1>4, <1>5, <1>6, <1>7 DEF EnvironmentSelected, MigrationAuthenticated,
       BackupPreflightCompleted, BackupCompleted

\* The choice of what becomes of the container leads to the authorization.
LEMMA DispositionStep ==
  ASSUME IInv, DispositionSelected
  PROVE  IInv'
  <1>1. CASE /\ Handle("DispositionStop", {"refresh"})
             /\ screen = "MigrationDisposition" /\ screen' = "MigrationAuthRefresh"
             /\ auth' = [auth EXCEPT !.quiescence = TRUE]
             /\ UNCHANGED <<sessionVars, lease, handoff, restored, code, exempt, interrupted,
                            checkVars, endVars, polls>>
    <2>1. OtherTypeOK' /\ (exempt' => lease')
      BY <1>1 DEF IInv, SessionInv, TypeOK, LeaseAccountedFor, OtherTypeOK, Screens, Awaits,
         sessionVars, leaseVars, checkVars, endVars
    <2>2. /\ "DispositionStop" \in Messages \ {"BootstrapComplete"}
          /\ {"refresh"} \in SUBSET Messages
          /\ screen' \in DOMAIN Awaits =>
                 \/ {"refresh"} \intersect Awaits[screen'] # {}
                 \/ screen' = screen /\ "DispositionStop" \notin Awaits[screen]
      BY <1>1 DEF Messages, Commands, Immediate, Results, Screens, Awaits
    <2>3. SessionInv' /\ Delivered("DispositionStop", {"refresh"})
      BY <1>1, <2>1, <2>2, Kept DEF sessionVars, endVars
    <2> QED
      BY <1>1, <2>3, SetsOfMessages DEF IInv, FlowInv, Awaits, Delivered, sessionVars,
         leaseVars, endVars
  <1>2. CASE /\ screen = "MigrationDisposition"
            /\ Moves(Handle("DispositionRemove", {}), "MigrationRemoveConfirm")
    <2>1. /\ "DispositionRemove" \in Messages \ {"BootstrapComplete"}
          /\ "MigrationRemoveConfirm" \in Screens
          /\ {} \in SUBSET Messages
          /\ "MigrationRemoveConfirm" \in DOMAIN Awaits
                => {} \intersect Awaits["MigrationRemoveConfirm"] # {}
      BY <1>2 DEF Messages, Commands, Immediate, Results, Screens, Awaits
    <2>2. /\ SessionInv' /\ screen' = "MigrationRemoveConfirm"
          /\ Delivered("DispositionRemove", {})
          /\ UNCHANGED <<capable, menu, lease, handoff, auth, restored>>
      BY <1>2, <2>1, Moved
    <2> QED
      BY <1>2, <2>2, SetsOfMessages DEF IInv, FlowInv, Awaits, Delivered
  <1> QED
    BY <1>1, <1>2 DEF DispositionSelected, AuthorizeMigrationQuiescence

\* The handoff begins once, and its answer is awaited.
LEMMA RunBeginStep ==
  ASSUME IInv, RunBegin
  PROVE  IInv'
  <1>1. CASE /\ Handle("begin", {"QuiescenceFailed"})
             /\ UNCHANGED handoff
             /\ UNCHANGED <<screen, sessionVars, lease, auth, restored, code, exempt, interrupted,
                            checkVars, endVars, polls>>
    <2>1. OtherTypeOK' /\ (exempt' => lease')
      BY <1>1 DEF IInv, SessionInv, TypeOK, LeaseAccountedFor, OtherTypeOK, Screens, Awaits,
         sessionVars, leaseVars, checkVars, endVars
    <2>2. /\ "begin" \in Messages \ {"BootstrapComplete"}
          /\ {"QuiescenceFailed"} \in SUBSET Messages
          /\ screen' \in DOMAIN Awaits =>
                 \/ {"QuiescenceFailed"} \intersect Awaits[screen'] # {}
                 \/ screen' = screen /\ "begin" \notin Awaits[screen]
      BY <1>1 DEF Messages, Commands, Immediate, Results, Screens, Awaits
    <2>3. SessionInv' /\ Delivered("begin", {"QuiescenceFailed"})
      BY <1>1, <2>1, <2>2, Kept DEF sessionVars, endVars
    <2> QED
      BY <1>1, <2>3, SetsOfMessages DEF IInv, FlowInv, Awaits, Delivered, sessionVars,
         leaseVars, endVars
  <1>2. CASE /\ Handle("begin", {"LeaseGranted"})
             /\ handoff' = "live"
             /\ UNCHANGED <<screen, sessionVars, lease, auth, restored, code, exempt, interrupted,
                            checkVars, endVars, polls>>
    <2>1. OtherTypeOK' /\ (exempt' => lease')
      BY <1>2 DEF IInv, SessionInv, TypeOK, LeaseAccountedFor, OtherTypeOK, Screens, Awaits,
         sessionVars, leaseVars, checkVars, endVars
    <2>2. /\ "begin" \in Messages \ {"BootstrapComplete"} /\ {"LeaseGranted"} \in SUBSET Messages
          /\ screen' \in DOMAIN Awaits =>
                 \/ {"LeaseGranted"} \intersect Awaits[screen'] # {}
                 \/ screen' = screen /\ "begin" \notin Awaits[screen]
      BY <1>2 DEF Messages, Commands, Immediate, Results, Screens, Awaits
    <2>3. SessionInv' /\ Delivered("begin", {"LeaseGranted"})
      BY <1>2, <2>1, <2>2, Kept DEF sessionVars, endVars
    <2> QED
      BY <1>2, <2>3, SetsOfMessages DEF IInv, FlowInv, Awaits, Delivered, sessionVars,
         leaseVars, endVars
  <1>3. CASE /\ Handle("begin", {"LeaseAfterFailure"})
             /\ handoff' = "live"
             /\ UNCHANGED <<screen, sessionVars, lease, auth, restored, code, exempt, interrupted,
                            checkVars, endVars, polls>>
    <2>1. OtherTypeOK' /\ (exempt' => lease')
      BY <1>3 DEF IInv, SessionInv, TypeOK, LeaseAccountedFor, OtherTypeOK, Screens, Awaits,
         sessionVars, leaseVars, checkVars, endVars
    <2>2. /\ "begin" \in Messages \ {"BootstrapComplete"}
          /\ {"LeaseAfterFailure"} \in SUBSET Messages
          /\ screen' \in DOMAIN Awaits =>
                 \/ {"LeaseAfterFailure"} \intersect Awaits[screen'] # {}
                 \/ screen' = screen /\ "begin" \notin Awaits[screen]
      BY <1>3 DEF Messages, Commands, Immediate, Results, Screens, Awaits
    <2>3. SessionInv' /\ Delivered("begin", {"LeaseAfterFailure"})
      BY <1>3, <2>1, <2>2, Kept DEF sessionVars, endVars
    <2> QED
      BY <1>3, <2>3, SetsOfMessages DEF IInv, FlowInv, Awaits, Delivered, sessionVars,
         leaseVars, endVars
  <1> QED
    BY <1>1, <1>2, <1>3 DEF RunBegin

-----------------------------------------------------------------------------
(* From the answer of the handoff to the end.                               *)

\* The answer of the handoff: its lease, a lease after a failure, or none.
LEMMA QuiescenceStep ==
  ASSUME IInv, QuiescenceCompleted
  PROVE  IInv'
  <1>1. CASE /\ Handle("LeaseGranted", {"preflight"})
             /\ screen = "MigrationQuiescence" /\ screen' = "Preflight"
             /\ lease' = TRUE /\ exempt' = TRUE
             /\ UNCHANGED <<sessionVars, handoff, auth, restored, code, interrupted, checkVars,
                            endVars, polls>>
    <2>1. OtherTypeOK' /\ (exempt' => lease')
      BY <1>1 DEF IInv, SessionInv, TypeOK, LeaseAccountedFor, OtherTypeOK, Screens, Awaits,
         sessionVars, leaseVars, checkVars, endVars
    <2>2. /\ "LeaseGranted" \in Messages \ {"BootstrapComplete"}
          /\ {"preflight"} \in SUBSET Messages
          /\ screen' \in DOMAIN Awaits =>
                 \/ {"preflight"} \intersect Awaits[screen'] # {}
                 \/ screen' = screen /\ "LeaseGranted" \notin Awaits[screen]
      BY <1>1 DEF Messages, Commands, Immediate, Results, Screens, Awaits
    <2>3. SessionInv' /\ Delivered("LeaseGranted", {"preflight"})
      BY <1>1, <2>1, <2>2, Kept DEF sessionVars, endVars
    <2> QED
      BY <1>1, <2>3, SetsOfMessages DEF IInv, FlowInv, Awaits, Delivered, sessionVars,
         leaseVars, endVars
  <1>2. CASE /\ Handle("LeaseAfterFailure", {"refresh"})
             /\ screen = "MigrationQuiescence" /\ screen' = "MigrationAuthRefresh"
             /\ lease' = TRUE /\ auth' = [auth EXCEPT !.recovery = TRUE]
             /\ UNCHANGED <<sessionVars, handoff, restored, code, exempt, interrupted, checkVars,
                            endVars, polls>>
    <2>1. OtherTypeOK' /\ (exempt' => lease')
      BY <1>2 DEF IInv, SessionInv, TypeOK, LeaseAccountedFor, OtherTypeOK, Screens, Awaits,
         sessionVars, leaseVars, checkVars, endVars
    <2>2. /\ "LeaseAfterFailure" \in Messages \ {"BootstrapComplete"}
          /\ {"refresh"} \in SUBSET Messages
          /\ screen' \in DOMAIN Awaits =>
                 \/ {"refresh"} \intersect Awaits[screen'] # {}
                 \/ screen' = screen /\ "LeaseAfterFailure" \notin Awaits[screen]
      BY <1>2 DEF Messages, Commands, Immediate, Results, Screens, Awaits
    <2>3. SessionInv' /\ Delivered("LeaseAfterFailure", {"refresh"})
      BY <1>2, <2>1, <2>2, Kept DEF sessionVars, endVars
    <2> QED
      BY <1>2, <2>3, SetsOfMessages DEF IInv, FlowInv, Awaits, Delivered, sessionVars,
         leaseVars, endVars
  <1>3. CASE /\ Handle("QuiescenceFailed", {})
             /\ screen = "MigrationQuiescence" /\ screen' = "MigrationResult"
             /\ code' = "refused"
             /\ UNCHANGED <<sessionVars, lease, handoff, auth, restored, exempt, interrupted,
                            checkVars, endVars, polls>>
    <2>1. OtherTypeOK' /\ (exempt' => lease')
      BY <1>3 DEF IInv, SessionInv, TypeOK, LeaseAccountedFor, OtherTypeOK, Screens, Awaits,
         sessionVars, leaseVars, checkVars, endVars
    <2>2. /\ "QuiescenceFailed" \in Messages \ {"BootstrapComplete"} /\ {} \in SUBSET Messages
          /\ screen' \in DOMAIN Awaits =>
                 \/ {} \intersect Awaits[screen'] # {}
                 \/ screen' = screen /\ "QuiescenceFailed" \notin Awaits[screen]
      BY <1>3 DEF Messages, Commands, Immediate, Results, Screens, Awaits
    <2>3. SessionInv' /\ Delivered("QuiescenceFailed", {})
      BY <1>3, <2>1, <2>2, Kept DEF sessionVars, endVars
    <2> QED
      BY <1>3, <2>3, SetsOfMessages DEF IInv, FlowInv, Awaits, Delivered, sessionVars,
         leaseVars, endVars
  <1> QED
    BY <1>1, <1>2, <1>3 DEF QuiescenceCompleted

\* The completion of the lease, in its goroutine.
LEMMA RunCompletionStep ==
  ASSUME IInv, RunCompleteFailure \/ RunCompleteSuccess
  PROVE  IInv'
  <1>1. CASE /\ Handle("completeFailure", {"RecoveryVerified"})
             /\ handoff = "live" /\ handoff' = "recovered"
             /\ UNCHANGED <<screen, sessionVars, lease, auth, restored, code, exempt, interrupted,
                            checkVars, endVars, polls>>
    <2>1. OtherTypeOK' /\ (exempt' => lease')
      BY <1>1 DEF IInv, SessionInv, TypeOK, LeaseAccountedFor, OtherTypeOK, Screens, Awaits,
         sessionVars, leaseVars, checkVars, endVars
    <2>2. /\ "completeFailure" \in Messages \ {"BootstrapComplete"}
          /\ {"RecoveryVerified"} \in SUBSET Messages
          /\ screen' \in DOMAIN Awaits =>
                 \/ {"RecoveryVerified"} \intersect Awaits[screen'] # {}
                 \/ screen' = screen /\ "completeFailure" \notin Awaits[screen]
      BY <1>1 DEF Messages, Commands, Immediate, Results, Screens, Awaits
    <2>3. SessionInv' /\ Delivered("completeFailure", {"RecoveryVerified"})
      BY <1>1, <2>1, <2>2, Kept DEF sessionVars, endVars
    <2> QED
      BY <1>1, <2>3, SetsOfMessages DEF IInv, FlowInv, Awaits, Delivered, sessionVars,
         leaseVars, endVars
  <1>2. CASE /\ Handle("completeFailure", {"RecoveryUnproven"})
             /\ handoff = "live" /\ handoff' = "recovered"
             /\ UNCHANGED <<screen, sessionVars, lease, auth, restored, code, exempt, interrupted,
                            checkVars, endVars, polls>>
    <2>1. OtherTypeOK' /\ (exempt' => lease')
      BY <1>2 DEF IInv, SessionInv, TypeOK, LeaseAccountedFor, OtherTypeOK, Screens, Awaits,
         sessionVars, leaseVars, checkVars, endVars
    <2>2. /\ "completeFailure" \in Messages \ {"BootstrapComplete"}
          /\ {"RecoveryUnproven"} \in SUBSET Messages
          /\ screen' \in DOMAIN Awaits =>
                 \/ {"RecoveryUnproven"} \intersect Awaits[screen'] # {}
                 \/ screen' = screen /\ "completeFailure" \notin Awaits[screen]
      BY <1>2 DEF Messages, Commands, Immediate, Results, Screens, Awaits
    <2>3. SessionInv' /\ Delivered("completeFailure", {"RecoveryUnproven"})
      BY <1>2, <2>1, <2>2, Kept DEF sessionVars, endVars
    <2> QED
      BY <1>2, <2>3, SetsOfMessages DEF IInv, FlowInv, Awaits, Delivered, sessionVars,
         leaseVars, endVars
  <1>3. CASE /\ Handle("completeFailure", {"RecoveryUnproven"})
             /\ handoff # "live" /\ handoff' = handoff
             /\ UNCHANGED <<screen, sessionVars, lease, auth, restored, code, exempt, interrupted,
                            checkVars, endVars, polls>>
    <2>1. OtherTypeOK' /\ (exempt' => lease')
      BY <1>3 DEF IInv, SessionInv, TypeOK, LeaseAccountedFor, OtherTypeOK, Screens, Awaits,
         sessionVars, leaseVars, checkVars, endVars
    <2>2. /\ "completeFailure" \in Messages \ {"BootstrapComplete"}
          /\ {"RecoveryUnproven"} \in SUBSET Messages
          /\ screen' \in DOMAIN Awaits =>
                 \/ {"RecoveryUnproven"} \intersect Awaits[screen'] # {}
                 \/ screen' = screen /\ "completeFailure" \notin Awaits[screen]
      BY <1>3 DEF Messages, Commands, Immediate, Results, Screens, Awaits
    <2>3. SessionInv' /\ Delivered("completeFailure", {"RecoveryUnproven"})
      BY <1>3, <2>1, <2>2, Kept DEF sessionVars, endVars
    <2> QED
      BY <1>3, <2>3, SetsOfMessages DEF IInv, FlowInv, Awaits, Delivered, sessionVars,
         leaseVars, endVars
  <1>4. CASE /\ Handle("completeSuccess", {"SuccessCompleted"})
             /\ handoff' = IF handoff = "live" THEN "released" ELSE handoff
             /\ UNCHANGED <<screen, sessionVars, lease, auth, restored, code, exempt, interrupted,
                            checkVars, endVars, polls>>
    <2>1. OtherTypeOK' /\ (exempt' => lease')
      BY <1>4 DEF IInv, SessionInv, TypeOK, LeaseAccountedFor, OtherTypeOK, Screens, Awaits,
         sessionVars, leaseVars, checkVars, endVars
    <2>2. /\ "completeSuccess" \in Messages \ {"BootstrapComplete"}
          /\ {"SuccessCompleted"} \in SUBSET Messages
          /\ screen' \in DOMAIN Awaits =>
                 \/ {"SuccessCompleted"} \intersect Awaits[screen'] # {}
                 \/ screen' = screen /\ "completeSuccess" \notin Awaits[screen]
      BY <1>4 DEF Messages, Commands, Immediate, Results, Screens, Awaits
    <2>3. SessionInv' /\ Delivered("completeSuccess", {"SuccessCompleted"})
      BY <1>4, <2>1, <2>2, Kept DEF sessionVars, endVars
    <2> QED
      BY <1>4, <2>3, SetsOfMessages DEF IInv, FlowInv, Awaits, Delivered, sessionVars,
         leaseVars, endVars
  <1> QED
    BY <1>1, <1>2, <1>3, <1>4 DEF RunCompleteFailure, RunCompleteSuccess

\* The restore's command, which succeeds or fails.
LEMMA RunRestoreStep ==
  ASSUME IInv, RunRestore
  PROVE  IInv'
  <1>1. CASE /\ Handle("restore", {"RestoreSucceeded"})
             /\ restored' = TRUE
             /\ UNCHANGED <<screen, sessionVars, lease, handoff, auth, code, exempt, interrupted,
                            checkVars, endVars, polls>>
    <2>1. OtherTypeOK' /\ (exempt' => lease')
      BY <1>1 DEF IInv, SessionInv, TypeOK, LeaseAccountedFor, OtherTypeOK, Screens, Awaits,
         sessionVars, leaseVars, checkVars, endVars
    <2>2. /\ "restore" \in Messages \ {"BootstrapComplete"}
          /\ {"RestoreSucceeded"} \in SUBSET Messages
          /\ screen' \in DOMAIN Awaits =>
                 \/ {"RestoreSucceeded"} \intersect Awaits[screen'] # {}
                 \/ screen' = screen /\ "restore" \notin Awaits[screen]
      BY <1>1 DEF Messages, Commands, Immediate, Results, Screens, Awaits
    <2>3. SessionInv' /\ Delivered("restore", {"RestoreSucceeded"})
      BY <1>1, <2>1, <2>2, Kept DEF sessionVars, endVars
    <2> QED
      BY <1>1, <2>3, SetsOfMessages DEF IInv, FlowInv, Awaits, Delivered, sessionVars,
         leaseVars, endVars
  <1>2. CASE /\ Handle("restore", {"RestoreFailed"})
             /\ UNCHANGED restored
             /\ UNCHANGED <<screen, sessionVars, lease, handoff, auth, code, exempt, interrupted,
                            checkVars, endVars, polls>>
    <2>1. OtherTypeOK' /\ (exempt' => lease')
      BY <1>2 DEF IInv, SessionInv, TypeOK, LeaseAccountedFor, OtherTypeOK, Screens, Awaits,
         sessionVars, leaseVars, checkVars, endVars
    <2>2. /\ "restore" \in Messages \ {"BootstrapComplete"}
          /\ {"RestoreFailed"} \in SUBSET Messages
          /\ screen' \in DOMAIN Awaits =>
                 \/ {"RestoreFailed"} \intersect Awaits[screen'] # {}
                 \/ screen' = screen /\ "restore" \notin Awaits[screen]
      BY <1>2 DEF Messages, Commands, Immediate, Results, Screens, Awaits
    <2>3. SessionInv' /\ Delivered("restore", {"RestoreFailed"})
      BY <1>2, <2>1, <2>2, Kept DEF sessionVars, endVars
    <2> QED
      BY <1>2, <2>3, SetsOfMessages DEF IInv, FlowInv, Awaits, Delivered, sessionVars,
         leaseVars, endVars
  <1> QED
    BY <1>1, <1>2 DEF RunRestore

\* Its results give the lease up.
LEMMA CompletionStep ==
  ASSUME IInv, RecoveryCompleted \/ SuccessCompleted
  PROVE  IInv'
  <1>1. CASE /\ Handle("RecoveryVerified", {})
             /\ screen = "MigrationRecovery" /\ screen' = "MigrationResult"
             /\ lease' = FALSE /\ exempt' = FALSE
             /\ code' \in {"verified", "unproven"}
             /\ UNCHANGED <<sessionVars, handoff, auth, restored, interrupted, checkVars,
                            endVars, polls>>
    <2>1. OtherTypeOK' /\ (exempt' => lease')
      BY <1>1 DEF IInv, SessionInv, TypeOK, LeaseAccountedFor, OtherTypeOK, Screens, Awaits,
         sessionVars, leaseVars, checkVars, endVars
    <2>2. /\ "RecoveryVerified" \in Messages \ {"BootstrapComplete"} /\ {} \in SUBSET Messages
          /\ screen' \in DOMAIN Awaits =>
                 \/ {} \intersect Awaits[screen'] # {}
                 \/ screen' = screen /\ "RecoveryVerified" \notin Awaits[screen]
      BY <1>1 DEF Messages, Commands, Immediate, Results, Screens, Awaits
    <2>3. SessionInv' /\ Delivered("RecoveryVerified", {})
      BY <1>1, <2>1, <2>2, Kept DEF sessionVars, endVars
    <2> QED
      BY <1>1, <2>3, SetsOfMessages DEF IInv, FlowInv, Awaits, Delivered, sessionVars,
         leaseVars, endVars
  <1>2. CASE /\ Handle("RecoveryUnproven", {})
             /\ screen = "MigrationRecovery" /\ screen' = "MigrationResult"
             /\ lease' = FALSE /\ exempt' = FALSE
             /\ code' \in {"verified", "unproven"}
             /\ UNCHANGED <<sessionVars, handoff, auth, restored, interrupted, checkVars,
                            endVars, polls>>
    <2>1. OtherTypeOK' /\ (exempt' => lease')
      BY <1>2 DEF IInv, SessionInv, TypeOK, LeaseAccountedFor, OtherTypeOK, Screens, Awaits,
         sessionVars, leaseVars, checkVars, endVars
    <2>2. /\ "RecoveryUnproven" \in Messages \ {"BootstrapComplete"} /\ {} \in SUBSET Messages
          /\ screen' \in DOMAIN Awaits =>
                 \/ {} \intersect Awaits[screen'] # {}
                 \/ screen' = screen /\ "RecoveryUnproven" \notin Awaits[screen]
      BY <1>2 DEF Messages, Commands, Immediate, Results, Screens, Awaits
    <2>3. SessionInv' /\ Delivered("RecoveryUnproven", {})
      BY <1>2, <2>1, <2>2, Kept DEF sessionVars, endVars
    <2> QED
      BY <1>2, <2>3, SetsOfMessages DEF IInv, FlowInv, Awaits, Delivered, sessionVars,
         leaseVars, endVars
  <1>3. CASE /\ Handle("SuccessCompleted", {})
             /\ screen = "MigrationSuccess" /\ screen' = "Result"
             /\ lease' = FALSE /\ exempt' = FALSE
             /\ outcome' = "installed"
             /\ UNCHANGED <<sessionVars, handoff, auth, restored, code, interrupted, checkVars,
                            over, polls>>
    <2>1. OtherTypeOK' /\ (exempt' => lease')
      BY <1>3 DEF IInv, SessionInv, TypeOK, LeaseAccountedFor, OtherTypeOK, Screens, Awaits,
         sessionVars, leaseVars, checkVars, endVars
    <2>2. /\ "SuccessCompleted" \in Messages \ {"BootstrapComplete"} /\ {} \in SUBSET Messages
          /\ screen' \in DOMAIN Awaits =>
                 \/ {} \intersect Awaits[screen'] # {}
                 \/ screen' = screen /\ "SuccessCompleted" \notin Awaits[screen]
      BY <1>3 DEF Messages, Commands, Immediate, Results, Screens, Awaits
    <2>3. SessionInv' /\ Delivered("SuccessCompleted", {})
      BY <1>3, <2>1, <2>2, Kept DEF sessionVars, endVars
    <2> QED
      BY <1>3, <2>3, SetsOfMessages DEF IInv, FlowInv, Awaits, Delivered, sessionVars,
         leaseVars, endVars
  <1> QED
    BY <1>1, <1>2, <1>3 DEF RecoveryCompleted, SuccessCompleted

\* A refreshed authorization is for whoever asked for it.
LEMMA AuthorizationStep ==
  ASSUME IInv, AuthorizationChecked \/ AuthorizationRefreshed
  PROVE  IInv'
  <1>1. CASE screen = "MigrationAuthCheck" /\ Moves(Handle("validate", {"up"}), "Deploy")
    <2>1. /\ "validate" \in Messages \ {"BootstrapComplete"} /\ "Deploy" \in Screens
          /\ {"up"} \in SUBSET Messages
          /\ "Deploy" \in DOMAIN Awaits => {"up"} \intersect Awaits["Deploy"] # {}
      BY <1>1 DEF Messages, Commands, Immediate, Results, Screens, Awaits
    <2>2. /\ SessionInv' /\ screen' = "Deploy" /\ Delivered("validate", {"up"})
          /\ UNCHANGED <<capable, menu, lease, handoff, auth, restored>>
      BY <1>1, <2>1, Moved
    <2> QED
      BY <1>1, <2>2, SetsOfMessages DEF IInv, FlowInv, Awaits, Delivered
  <1>2. CASE /\ screen = "MigrationAuthCheck"
            /\ Moves(Handle("validate", {"refresh"}), "MigrationAuthRefresh")
    <2>1. /\ "validate" \in Messages \ {"BootstrapComplete"} /\ "MigrationAuthRefresh" \in Screens
          /\ {"refresh"} \in SUBSET Messages
          /\ "MigrationAuthRefresh" \in DOMAIN Awaits
                => {"refresh"} \intersect Awaits["MigrationAuthRefresh"] # {}
      BY <1>2 DEF Messages, Commands, Immediate, Results, Screens, Awaits
    <2>2. /\ SessionInv' /\ screen' = "MigrationAuthRefresh" /\ Delivered("validate", {"refresh"})
          /\ UNCHANGED <<capable, menu, lease, handoff, auth, restored>>
      BY <1>2, <2>1, Moved
    <2> QED
      BY <1>2, <2>2, SetsOfMessages DEF IInv, FlowInv, Awaits, Delivered
  <1>3. CASE /\ Handle("refresh", {"completeFailure"})
             /\ screen = "MigrationAuthRefresh" /\ auth.recovery /\ lease
             /\ screen' = "MigrationRecovery" /\ auth' = [auth EXCEPT !.recovery = FALSE]
             /\ UNCHANGED <<sessionVars, lease, handoff, restored, code, exempt, interrupted,
                            checkVars, endVars, polls>>
    <2>1. OtherTypeOK' /\ (exempt' => lease')
      BY <1>3 DEF IInv, SessionInv, TypeOK, LeaseAccountedFor, OtherTypeOK, Screens, Awaits,
         sessionVars, leaseVars, checkVars, endVars
    <2>2. /\ "refresh" \in Messages \ {"BootstrapComplete"}
          /\ {"completeFailure"} \in SUBSET Messages
          /\ screen' \in DOMAIN Awaits =>
                 \/ {"completeFailure"} \intersect Awaits[screen'] # {}
                 \/ screen' = screen /\ "refresh" \notin Awaits[screen]
      BY <1>3 DEF Messages, Commands, Immediate, Results, Screens, Awaits
    <2>3. SessionInv' /\ Delivered("refresh", {"completeFailure"})
      BY <1>3, <2>1, <2>2, Kept DEF sessionVars, endVars
    <2> QED
      BY <1>3, <2>3, SetsOfMessages DEF IInv, FlowInv, Awaits, Delivered, sessionVars,
         leaseVars, endVars
  <1>4. CASE /\ Handle("refresh", {})
             /\ screen = "MigrationAuthRefresh" /\ auth.recovery /\ ~lease
             /\ screen' = "MigrationResult" /\ auth' = [auth EXCEPT !.recovery = FALSE]
             /\ UNCHANGED <<sessionVars, lease, handoff, restored, code, exempt, interrupted,
                            checkVars, endVars, polls>>
    <2>1. OtherTypeOK' /\ (exempt' => lease')
      BY <1>4 DEF IInv, SessionInv, TypeOK, LeaseAccountedFor, OtherTypeOK, Screens, Awaits,
         sessionVars, leaseVars, checkVars, endVars
    <2>2. /\ "refresh" \in Messages \ {"BootstrapComplete"} /\ {} \in SUBSET Messages
          /\ screen' \in DOMAIN Awaits =>
                 \/ {} \intersect Awaits[screen'] # {}
                 \/ screen' = screen /\ "refresh" \notin Awaits[screen]
      BY <1>4 DEF Messages, Commands, Immediate, Results, Screens, Awaits
    <2>3. SessionInv' /\ Delivered("refresh", {})
      BY <1>4, <2>1, <2>2, Kept DEF sessionVars, endVars
    <2> QED
      BY <1>4, <2>3, SetsOfMessages DEF IInv, FlowInv, Awaits, Delivered, sessionVars,
         leaseVars, endVars
  <1>5. CASE /\ Handle("refresh", {"begin"})
             /\ screen = "MigrationAuthRefresh" /\ ~auth.recovery /\ auth.quiescence
             /\ screen' = "MigrationQuiescence" /\ code' = code
             /\ auth' = [auth EXCEPT !.quiescence = FALSE]
             /\ UNCHANGED <<sessionVars, lease, handoff, restored, exempt, interrupted,
                            checkVars, endVars, polls>>
    <2>1. OtherTypeOK' /\ (exempt' => lease')
      BY <1>5 DEF IInv, SessionInv, TypeOK, LeaseAccountedFor, OtherTypeOK, Screens, Awaits,
         sessionVars, leaseVars, checkVars, endVars
    <2>2. /\ "refresh" \in Messages \ {"BootstrapComplete"} /\ {"begin"} \in SUBSET Messages
          /\ screen' \in DOMAIN Awaits =>
                 \/ {"begin"} \intersect Awaits[screen'] # {}
                 \/ screen' = screen /\ "refresh" \notin Awaits[screen]
      BY <1>5 DEF Messages, Commands, Immediate, Results, Screens, Awaits
    <2>3. SessionInv' /\ Delivered("refresh", {"begin"})
      BY <1>5, <2>1, <2>2, Kept DEF sessionVars, endVars
    <2> QED
      BY <1>5, <2>3, SetsOfMessages DEF IInv, FlowInv, Awaits, Delivered, sessionVars,
         leaseVars, endVars
  <1>6. CASE /\ Handle("refresh", {})
             /\ screen = "MigrationAuthRefresh" /\ ~auth.recovery /\ auth.quiescence
             /\ screen' = "MigrationResult" /\ code' = "refused"
             /\ auth' = [auth EXCEPT !.quiescence = FALSE]
             /\ UNCHANGED <<sessionVars, lease, handoff, restored, exempt, interrupted,
                            checkVars, endVars, polls>>
    <2>1. OtherTypeOK' /\ (exempt' => lease')
      BY <1>6 DEF IInv, SessionInv, TypeOK, LeaseAccountedFor, OtherTypeOK, Screens, Awaits,
         sessionVars, leaseVars, checkVars, endVars
    <2>2. /\ "refresh" \in Messages \ {"BootstrapComplete"} /\ {} \in SUBSET Messages
          /\ screen' \in DOMAIN Awaits =>
                 \/ {} \intersect Awaits[screen'] # {}
                 \/ screen' = screen /\ "refresh" \notin Awaits[screen]
      BY <1>6 DEF Messages, Commands, Immediate, Results, Screens, Awaits
    <2>3. SessionInv' /\ Delivered("refresh", {})
      BY <1>6, <2>1, <2>2, Kept DEF sessionVars, endVars
    <2> QED
      BY <1>6, <2>3, SetsOfMessages DEF IInv, FlowInv, Awaits, Delivered, sessionVars,
         leaseVars, endVars
  <1>7. CASE /\ screen = "MigrationAuthRefresh" /\ ~auth.recovery /\ ~auth.quiescence
            /\ Moves(Handle("refresh", {"up"}), "Deploy")
    <2>1. /\ "refresh" \in Messages \ {"BootstrapComplete"} /\ "Deploy" \in Screens
          /\ {"up"} \in SUBSET Messages
          /\ "Deploy" \in DOMAIN Awaits => {"up"} \intersect Awaits["Deploy"] # {}
      BY <1>7 DEF Messages, Commands, Immediate, Results, Screens, Awaits
    <2>2. /\ SessionInv' /\ screen' = "Deploy" /\ Delivered("refresh", {"up"})
          /\ UNCHANGED <<capable, menu, lease, handoff, auth, restored>>
      BY <1>7, <2>1, Moved
    <2> QED
      BY <1>7, <2>2, SetsOfMessages DEF IInv, FlowInv, Awaits, Delivered
  <1>8. CASE /\ screen = "MigrationAuthRefresh" /\ ~auth.recovery /\ ~auth.quiescence /\ lease
            /\ Moves(Handle("refresh", {"completeFailure"}), "MigrationRecovery")
    <2>1. /\ "refresh" \in Messages \ {"BootstrapComplete"} /\ "MigrationRecovery" \in Screens
          /\ {"completeFailure"} \in SUBSET Messages
          /\ "MigrationRecovery" \in DOMAIN Awaits
                => {"completeFailure"} \intersect Awaits["MigrationRecovery"] # {}
      BY <1>8 DEF Messages, Commands, Immediate, Results, Screens, Awaits
    <2>2. /\ SessionInv' /\ screen' = "MigrationRecovery"
          /\ Delivered("refresh", {"completeFailure"})
          /\ UNCHANGED <<capable, menu, lease, handoff, auth, restored>>
      BY <1>8, <2>1, Moved
    <2> QED
      BY <1>8, <2>2, SetsOfMessages DEF IInv, FlowInv, Awaits, Delivered
  <1>9. CASE /\ screen = "MigrationAuthRefresh" /\ ~auth.recovery /\ ~auth.quiescence /\ ~lease
            /\ Moves(Handle("refresh", {}), "MigrationResult")
    <2>1. /\ "refresh" \in Messages \ {"BootstrapComplete"} /\ "MigrationResult" \in Screens
          /\ {} \in SUBSET Messages
          /\ "MigrationResult" \in DOMAIN Awaits => {} \intersect Awaits["MigrationResult"] # {}
      BY <1>9 DEF Messages, Commands, Immediate, Results, Screens, Awaits
    <2>2. /\ SessionInv' /\ screen' = "MigrationResult" /\ Delivered("refresh", {})
          /\ UNCHANGED <<capable, menu, lease, handoff, auth, restored>>
      BY <1>9, <2>1, Moved
    <2> QED
      BY <1>9, <2>2, SetsOfMessages DEF IInv, FlowInv, Awaits, Delivered
  <1> QED
    BY <1>1, <1>2, <1>3, <1>4, <1>5, <1>6, <1>7, <1>8, <1>9 DEF AuthorizationChecked,
       AuthorizationRefreshed, RecoveryCommand, RecoveryScreen

\* A migration is deployed only up to its restore.
LEMMA DeployStep ==
  ASSUME IInv, PullCompleted \/ DeployCompleted
  PROVE  IInv'
  <1>1. CASE lease /\ Moves(Handle("pull", {"validate"}), "MigrationAuthCheck")
    <2>1. /\ "pull" \in Messages \ {"BootstrapComplete"} /\ "MigrationAuthCheck" \in Screens
          /\ {"validate"} \in SUBSET Messages
          /\ "MigrationAuthCheck" \in DOMAIN Awaits
                => {"validate"} \intersect Awaits["MigrationAuthCheck"] # {}
      BY <1>1 DEF Messages, Commands, Immediate, Results, Screens, Awaits
    <2>2. /\ SessionInv' /\ screen' = "MigrationAuthCheck" /\ Delivered("pull", {"validate"})
          /\ UNCHANGED <<capable, menu, lease, handoff, auth, restored>>
      BY <1>1, <2>1, Moved
    <2> QED
      BY <1>1, <2>2, SetsOfMessages DEF IInv, FlowInv, Awaits, Delivered
  <1>2. CASE ~lease /\ screen = "Pull" /\ Moves(Handle("pull", {"DeployStarted"}), "Pull")
    <2>1. /\ "pull" \in Messages \ {"BootstrapComplete"} /\ "Pull" \in Screens
          /\ {"DeployStarted"} \in SUBSET Messages
          /\ "Pull" \in DOMAIN Awaits => {"DeployStarted"} \intersect Awaits["Pull"] # {}
      BY <1>2 DEF Messages, Commands, Immediate, Results, Screens, Awaits
    <2>2. /\ SessionInv' /\ screen' = "Pull" /\ Delivered("pull", {"DeployStarted"})
          /\ UNCHANGED <<capable, menu, lease, handoff, auth, restored>>
      BY <1>2, <2>1, Moved
    <2> QED
      BY <1>2, <2>2, SetsOfMessages DEF IInv, FlowInv, Awaits, Delivered
  <1>3. CASE lease /\ screen = "Deploy" /\ Moves(Handle("up", {"restore"}), "DatabaseRestore")
    <2>1. /\ "up" \in Messages \ {"BootstrapComplete"} /\ "DatabaseRestore" \in Screens
          /\ {"restore"} \in SUBSET Messages
          /\ "DatabaseRestore" \in DOMAIN Awaits
                => {"restore"} \intersect Awaits["DatabaseRestore"] # {}
      BY <1>3 DEF Messages, Commands, Immediate, Results, Screens, Awaits
    <2>2. /\ SessionInv' /\ screen' = "DatabaseRestore" /\ Delivered("up", {"restore"})
          /\ UNCHANGED <<capable, menu, lease, handoff, auth, restored>>
      BY <1>3, <2>1, Moved
    <2> QED
      BY <1>3, <2>2, SetsOfMessages DEF IInv, FlowInv, Awaits, Delivered
  <1>4. CASE ~lease /\ screen = "Deploy" /\ Moves(Handle("up", {"HealthTick"}), "Deploy")
    <2>1. /\ "up" \in Messages \ {"BootstrapComplete"} /\ "Deploy" \in Screens
          /\ {"HealthTick"} \in SUBSET Messages
          /\ "Deploy" \in DOMAIN Awaits => {"HealthTick"} \intersect Awaits["Deploy"] # {}
      BY <1>4 DEF Messages, Commands, Immediate, Results, Screens, Awaits
    <2>2. /\ SessionInv' /\ screen' = "Deploy" /\ Delivered("up", {"HealthTick"})
          /\ UNCHANGED <<capable, menu, lease, handoff, auth, restored>>
      BY <1>4, <2>1, Moved
    <2> QED
      BY <1>4, <2>2, SetsOfMessages DEF IInv, FlowInv, Awaits, Delivered
  <1> QED
    BY <1>1, <1>2, <1>3, <1>4 DEF PullCompleted, DeployCompleted

\* A restore leads on to the deployment, or to the recovery.
LEMMA RestoreStep ==
  ASSUME IInv, RestoreCompleted
  PROVE  IInv'
  <1>1. CASE /\ screen = "DatabaseRestore"
            /\ Moves(Handle("RestoreSucceeded", {"HealthTick"}), "Deploy")
    <2>1. /\ "RestoreSucceeded" \in Messages \ {"BootstrapComplete"} /\ "Deploy" \in Screens
          /\ {"HealthTick"} \in SUBSET Messages
          /\ "Deploy" \in DOMAIN Awaits => {"HealthTick"} \intersect Awaits["Deploy"] # {}
      BY <1>1 DEF Messages, Commands, Immediate, Results, Screens, Awaits
    <2>2. /\ SessionInv' /\ screen' = "Deploy" /\ Delivered("RestoreSucceeded", {"HealthTick"})
          /\ UNCHANGED <<capable, menu, lease, handoff, auth, restored>>
      BY <1>1, <2>1, Moved
    <2> QED
      BY <1>1, <2>2, SetsOfMessages DEF IInv, FlowInv, Awaits, Delivered
  <1>2. CASE /\ Handle("RestoreFailed", {"refresh"})
             /\ screen = "DatabaseRestore"
             /\ screen' = "MigrationAuthRefresh" /\ auth' = [auth EXCEPT !.recovery = TRUE]
             /\ interrupted' \in BOOLEAN
             /\ UNCHANGED <<sessionVars, lease, handoff, restored, code, exempt, checkVars,
                            endVars, polls>>
    <2>1. OtherTypeOK' /\ (exempt' => lease')
      BY <1>2 DEF IInv, SessionInv, TypeOK, LeaseAccountedFor, OtherTypeOK, Screens, Awaits,
         sessionVars, leaseVars, checkVars, endVars
    <2>2. /\ "RestoreFailed" \in Messages \ {"BootstrapComplete"}
          /\ {"refresh"} \in SUBSET Messages
          /\ screen' \in DOMAIN Awaits =>
                 \/ {"refresh"} \intersect Awaits[screen'] # {}
                 \/ screen' = screen /\ "RestoreFailed" \notin Awaits[screen]
      BY <1>2 DEF Messages, Commands, Immediate, Results, Screens, Awaits
    <2>3. SessionInv' /\ Delivered("RestoreFailed", {"refresh"})
      BY <1>2, <2>1, <2>2, Kept DEF sessionVars, endVars
    <2> QED
      BY <1>2, <2>3, SetsOfMessages DEF IInv, FlowInv, Awaits, Delivered, sessionVars,
         leaseVars, endVars
  <1>3. interrupted \in BOOLEAN
    BY DEF IInv, SessionInv, TypeOK
  <1> QED
    BY <1>1, <1>2, <1>3 DEF RestoreCompleted, BeginMigrationRecovery

\* Polls go on where they came from.
LEMMA HealthStep ==
  ASSUME IInv, HealthTick
  PROVE  IInv'
  <1>6. polls' \in 0..MaxPolls
    <2>1. polls \in 0..MaxPolls
      BY DEF IInv, SessionInv, TypeOK
    <2>2. \/ polls' = polls \/ polls' = 0 \/ (polls < MaxPolls /\ polls' = polls + 1)
      BY DEF HealthTick, Moves
    <2> QED
      BY <2>1, <2>2, BoundsAssumption
  <1>1. CASE /\ Handle("HealthTick", {"HealthTick"})
             /\ screen = "Deploy" /\ screen' = "Verify" /\ polls' = 0
             /\ UNCHANGED <<sessionVars, leaseVars, checkVars, endVars>>
    <2>1. OtherTypeOK' /\ (exempt' => lease')
      BY <1>6, <1>1 DEF IInv, SessionInv, TypeOK, LeaseAccountedFor, OtherTypeOK, Screens,
         Awaits, sessionVars, leaseVars, checkVars, endVars
    <2>2. /\ "HealthTick" \in Messages \ {"BootstrapComplete"}
          /\ {"HealthTick"} \in SUBSET Messages
          /\ screen' \in DOMAIN Awaits =>
                 \/ {"HealthTick"} \intersect Awaits[screen'] # {}
                 \/ screen' = screen /\ "HealthTick" \notin Awaits[screen]
      BY <1>1 DEF Messages, Commands, Immediate, Results, Screens, Awaits
    <2>3. SessionInv' /\ Delivered("HealthTick", {"HealthTick"})
      BY <1>1, <2>1, <2>2, Kept DEF sessionVars, endVars
    <2> QED
      BY <1>1, <2>3, SetsOfMessages DEF IInv, FlowInv, Awaits, Delivered, sessionVars,
         leaseVars, endVars
  <1>2. CASE screen = "Verify" /\ Moves(Handle("HealthTick", {"InstallFailure"}), "Verify")
    <2>1. /\ "HealthTick" \in Messages \ {"BootstrapComplete"} /\ "Verify" \in Screens
          /\ {"InstallFailure"} \in SUBSET Messages
          /\ "Verify" \in DOMAIN Awaits => {"InstallFailure"} \intersect Awaits["Verify"] # {}
      BY <1>2 DEF Messages, Commands, Immediate, Results, Screens, Awaits
    <2>2. /\ SessionInv' /\ screen' = "Verify" /\ Delivered("HealthTick", {"InstallFailure"})
          /\ UNCHANGED <<capable, menu, lease, handoff, auth, restored>>
      BY <1>2, <2>1, Moved
    <2> QED
      BY <1>2, <2>2, SetsOfMessages DEF IInv, FlowInv, Awaits, Delivered
  <1>3. CASE /\ Handle("HealthTick", {"InstallSuccess"})
             /\ screen = "Verify" /\ polls < MaxPolls /\ polls' = polls + 1
             /\ UNCHANGED <<screen, sessionVars, leaseVars, checkVars, endVars>>
    <2>1. OtherTypeOK' /\ (exempt' => lease')
      BY <1>6, <1>3 DEF IInv, SessionInv, TypeOK, LeaseAccountedFor, OtherTypeOK, Screens,
         Awaits, sessionVars, leaseVars, checkVars, endVars
    <2>2. /\ "HealthTick" \in Messages \ {"BootstrapComplete"}
          /\ {"InstallSuccess"} \in SUBSET Messages
          /\ screen' \in DOMAIN Awaits =>
                 \/ {"InstallSuccess"} \intersect Awaits[screen'] # {}
                 \/ screen' = screen /\ "HealthTick" \notin Awaits[screen]
      BY <1>3 DEF Messages, Commands, Immediate, Results, Screens, Awaits
    <2>3. SessionInv' /\ Delivered("HealthTick", {"InstallSuccess"})
      BY <1>3, <2>1, <2>2, Kept DEF sessionVars, endVars
    <2> QED
      BY <1>3, <2>3, SetsOfMessages DEF IInv, FlowInv, Awaits, Delivered, sessionVars,
         leaseVars, endVars
  <1>4. CASE /\ Handle("HealthTick", {"InstallFailure"})
             /\ screen = "Verify" /\ polls < MaxPolls /\ polls' = polls + 1
             /\ UNCHANGED <<screen, sessionVars, leaseVars, checkVars, endVars>>
    <2>1. OtherTypeOK' /\ (exempt' => lease')
      BY <1>6, <1>4 DEF IInv, SessionInv, TypeOK, LeaseAccountedFor, OtherTypeOK, Screens,
         Awaits, sessionVars, leaseVars, checkVars, endVars
    <2>2. /\ "HealthTick" \in Messages \ {"BootstrapComplete"}
          /\ {"InstallFailure"} \in SUBSET Messages
          /\ screen' \in DOMAIN Awaits =>
                 \/ {"InstallFailure"} \intersect Awaits[screen'] # {}
                 \/ screen' = screen /\ "HealthTick" \notin Awaits[screen]
      BY <1>4 DEF Messages, Commands, Immediate, Results, Screens, Awaits
    <2>3. SessionInv' /\ Delivered("HealthTick", {"InstallFailure"})
      BY <1>4, <2>1, <2>2, Kept DEF sessionVars, endVars
    <2> QED
      BY <1>4, <2>3, SetsOfMessages DEF IInv, FlowInv, Awaits, Delivered, sessionVars,
         leaseVars, endVars
  <1>5. CASE /\ Handle("HealthTick", {"HealthTick"})
             /\ screen = "Verify" /\ polls < MaxPolls /\ polls' = polls + 1
             /\ UNCHANGED <<screen, sessionVars, leaseVars, checkVars, endVars>>
    <2>1. OtherTypeOK' /\ (exempt' => lease')
      BY <1>6, <1>5 DEF IInv, SessionInv, TypeOK, LeaseAccountedFor, OtherTypeOK, Screens,
         Awaits, sessionVars, leaseVars, checkVars, endVars
    <2>2. /\ "HealthTick" \in Messages \ {"BootstrapComplete"}
          /\ {"HealthTick"} \in SUBSET Messages
          /\ screen' \in DOMAIN Awaits =>
                 \/ {"HealthTick"} \intersect Awaits[screen'] # {}
                 \/ screen' = screen /\ "HealthTick" \notin Awaits[screen]
      BY <1>5 DEF Messages, Commands, Immediate, Results, Screens, Awaits
    <2>3. SessionInv' /\ Delivered("HealthTick", {"HealthTick"})
      BY <1>5, <2>1, <2>2, Kept DEF sessionVars, endVars
    <2> QED
      BY <1>5, <2>3, SetsOfMessages DEF IInv, FlowInv, Awaits, Delivered, sessionVars,
         leaseVars, endVars
  <1> QED
    BY <1>1, <1>2, <1>3, <1>4, <1>5 DEF HealthTick

\* The success of the installation completes the lease only after a restore.
LEMMA SuccessStep ==
  ASSUME IInv, InstallSucceeded
  PROVE  IInv'
  <1>1. CASE lease /\ Moves(Handle("InstallSuccess", {"completeSuccess"}), "MigrationSuccess")
    <2>1. /\ "InstallSuccess" \in Messages \ {"BootstrapComplete"}
          /\ "MigrationSuccess" \in Screens
          /\ {"completeSuccess"} \in SUBSET Messages
          /\ "MigrationSuccess" \in DOMAIN Awaits
                => {"completeSuccess"} \intersect Awaits["MigrationSuccess"] # {}
      BY <1>1 DEF Messages, Commands, Immediate, Results, Screens, Awaits
    <2>2. /\ SessionInv' /\ screen' = "MigrationSuccess"
          /\ Delivered("InstallSuccess", {"completeSuccess"})
          /\ UNCHANGED <<capable, menu, lease, handoff, auth, restored>>
      BY <1>1, <2>1, Moved
    <2> QED
      BY <1>1, <2>2, SetsOfMessages DEF IInv, FlowInv, Awaits, Delivered
  <1>2. CASE /\ Handle("InstallSuccess", {})
             /\ ~lease /\ screen' = "Result" /\ outcome' = "installed"
             /\ UNCHANGED <<sessionVars, leaseVars, checkVars, over, polls>>
    <2>1. OtherTypeOK' /\ (exempt' => lease')
      BY <1>2 DEF IInv, SessionInv, TypeOK, LeaseAccountedFor, OtherTypeOK, Screens, Awaits,
         sessionVars, leaseVars, checkVars, endVars
    <2>2. /\ "InstallSuccess" \in Messages \ {"BootstrapComplete"} /\ {} \in SUBSET Messages
          /\ screen' \in DOMAIN Awaits =>
                 \/ {} \intersect Awaits[screen'] # {}
                 \/ screen' = screen /\ "InstallSuccess" \notin Awaits[screen]
      BY <1>2 DEF Messages, Commands, Immediate, Results, Screens, Awaits
    <2>3. SessionInv' /\ Delivered("InstallSuccess", {})
      BY <1>2, <2>1, <2>2, Kept DEF sessionVars, endVars
    <2> QED
      BY <1>2, <2>3, SetsOfMessages DEF IInv, FlowInv, Awaits, Delivered, sessionVars,
         leaseVars, endVars
  <1> QED
    BY <1>1, <1>2 DEF InstallSucceeded

\* The failure of an installation with a lease leads to the recovery.
LEMMA FailureStep ==
  ASSUME IInv, InstallFailed
  PROVE  IInv'
  <1>1. ASSUME NEW m \in {"envWrite", "asterisk", "pull", "up", "InstallFailure"}, lease,
               Handle(m, {"refresh"}), BeginMigrationRecovery(Handle(m, {"refresh"})),
               UNCHANGED interrupted
        PROVE  IInv'
    <2>1. OtherTypeOK' /\ (exempt' => lease')
      BY <1>1 DEF IInv, SessionInv, TypeOK, LeaseAccountedFor, OtherTypeOK, Screens, Awaits,
         BeginMigrationRecovery, sessionVars, endVars
    <2>2. m \in Messages
      BY DEF Messages, Commands, Immediate
    <2>3. SessionInv' /\ Delivered(m, {"refresh"})
      BY <1>1, <2>1, <2>2, Kept DEF Messages, Commands, Screens, Awaits, sessionVars, endVars,
         BeginMigrationRecovery
    <2> QED
      BY <1>1, <2>2, <2>3, SetsOfMessages DEF IInv, FlowInv, Awaits, Delivered, sessionVars,
         leaseVars, endVars, BeginMigrationRecovery
  <1>2. ASSUME NEW m \in {"envWrite", "asterisk", "pull", "up", "InstallFailure"}, ~lease,
               Handle(m, {}), screen' = "Result", outcome' = "failed",
               UNCHANGED <<sessionVars, leaseVars, checkVars, over, polls>>
        PROVE  IInv'
    BY <1>2, InstallationFailedStep
  <1> QED
    BY <1>1, <1>2 DEF InstallFailed, BeginMigrationRecovery

-----------------------------------------------------------------------------
(* The keys.                                                                *)

\* The program ends where no lease is live and no quiescence is running.
LEMMA QuitStep ==
  ASSUME IInv, Quit, screen = "Result" \/ (screen \notin Cancellable /\ ~lease)
  PROVE  IInv'
  <1>1. /\ Press({}) /\ over' = TRUE
        /\ UNCHANGED <<screen, sessionVars, leaseVars, checkVars, outcome, polls>>
    BY DEF Quit
  <1>2. TypeOK /\ NoScreenIsStuck /\ LeaseAccountedFor /\ FixInv /\ Typed({})
    BY <1>1, Pressed DEF IInv, SessionInv
  <1>3. ~again => handoff # "live"
    <2>1. TypeOK /\ FlowInv /\ (screen = "Result" \/ (screen # "MigrationQuiescence" /\ ~lease))
      BY DEF IInv, SessionInv, Cancellable
    <2> QED
      BY <2>1, SetsOfMessages DEF FlowInv, Awaits, TypeOK
  <1>4. again => again'
    BY <1>2 DEF Typed
  <1>5. TypeOK'
    <2>1. {capable, prompt, again, lease, restored, exempt, resolving, asterisk, interrupted,
           over}' \subseteq BOOLEAN
      BY <1>1, <1>2 DEF TypeOK, Typed, sessionVars, leaseVars
    <2> QED
      BY <1>1, <1>2, <2>1 DEF TypeOK, Typed, sessionVars, leaseVars, checkVars
  <1>6. NoScreenIsStuck' /\ LeaseAccountedFor'
    BY <1>1, <1>2, <1>3, <1>4 DEF NoScreenIsStuck, LeaseAccountedFor, leaseVars
  <1>7. \A k \in Messages : inflight'[k] = inflight[k]
    BY <1>2 DEF Typed
  <1>8. FixInv'
    <2>1. "BootstrapComplete" \in Messages
      BY DEF Messages, Immediate
    <2> QED
      BY <1>1, <1>2, <1>7, <2>1 DEF FixInv, sessionVars, checkVars
  <1>9. FlowInv'
    BY <1>1, <1>4, <1>7, SetsOfMessages DEF IInv, FlowInv, Awaits, sessionVars, leaseVars
  <1> QED
    BY <1>5, <1>6, <1>8, <1>9 DEF IInv, SessionInv

\* Ctrl-C, Escape and q.
LEMMA InterruptStep ==
  ASSUME IInv, NEW key \in {"ctrl+c", "esc", "q"}, Interrupt(key)
  PROVE  IInv'
  <1>1. /\ screen \notin Cancellable /\ interrupted \in BOOLEAN
        /\ Declined(key) \subseteq
               {"MigrationConfirm", "MigrationDisposition", "MigrationRemoveConfirm"}
    BY DEF Interrupt, Declined, IInv, SessionInv, TypeOK
  <1>2. CASE /\ screen \in {"MigrationConfirm", "MigrationDisposition", "MigrationRemoveConfirm"}
            /\ Moves(Press({}), "MigrationCancelled")
    <2>1. /\ "MigrationCancelled" \in Screens
          /\ {} \in SUBSET Messages
          /\ "MigrationCancelled" \in DOMAIN Awaits
                => \/ screen = "MigrationCancelled"
                   \/ {} \intersect Awaits["MigrationCancelled"] # {}
      BY <1>2 DEF Messages, Commands, Immediate, Results, Screens, Awaits
    <2>2. /\ SessionInv' /\ screen' = "MigrationCancelled" /\ Typed({})
          /\ UNCHANGED <<capable, menu, lease, handoff, auth, restored>>
      BY <1>2, <2>1, MovedByKey
    <2> QED
      BY <1>2, <2>2, SetsOfMessages DEF IInv, FlowInv, Awaits, Typed
  <1>3. CASE /\ Press({"refresh"})
             /\ lease
             /\ screen' = "MigrationAuthRefresh" /\ auth' = [auth EXCEPT !.recovery = TRUE]
             /\ interrupted' \in BOOLEAN
             /\ UNCHANGED <<sessionVars, lease, handoff, restored, code, exempt, checkVars,
                            endVars, polls>>
    <2>1. OtherTypeOK' /\ (exempt' => lease')
      BY <1>3 DEF IInv, SessionInv, TypeOK, LeaseAccountedFor, OtherTypeOK, Screens, Awaits,
         sessionVars, leaseVars, checkVars, endVars
    <2>2. /\ {"refresh"} \in SUBSET Messages
          /\ screen' \in DOMAIN Awaits =>
                 screen' = screen \/ {"refresh"} \intersect Awaits[screen'] # {}
      BY <1>3 DEF Messages, Commands, Immediate, Results, Screens, Awaits
    <2>3. SessionInv' /\ Typed({"refresh"})
      BY <1>3, <2>1, <2>2, KeptByKey DEF sessionVars, endVars
    <2> QED
      BY <1>3, <2>3, SetsOfMessages DEF IInv, FlowInv, Awaits, Typed, sessionVars, leaseVars,
         endVars
  <1>4. CASE /\ screen = "BlockedOperation"
            /\ Moves(Press({"OperationDismissed"}), "BlockedOperation")
    <2>1. /\ "BlockedOperation" \in Screens
          /\ {"OperationDismissed"} \in SUBSET Messages
          /\ "BlockedOperation" \in DOMAIN Awaits
                => \/ screen = "BlockedOperation"
                   \/ {"OperationDismissed"} \intersect Awaits["BlockedOperation"] # {}
      BY <1>4 DEF Messages, Commands, Immediate, Results, Screens, Awaits
    <2>2. /\ SessionInv' /\ screen' = "BlockedOperation" /\ Typed({"OperationDismissed"})
          /\ UNCHANGED <<capable, menu, lease, handoff, auth, restored>>
      BY <1>4, <2>1, MovedByKey
    <2> QED
      BY <1>4, <2>2, SetsOfMessages DEF IInv, FlowInv, Awaits, Typed
  <1>5. CASE ~lease /\ Quit
    BY <1>1, <1>5, QuitStep
  <1> QED
    BY <1>1, <1>2, <1>3, <1>4, <1>5 DEF Interrupt, BeginMigrationRecovery

\* What Enter sends.
LEMMA EnterSendsStep ==
  ASSUME IInv, screen \in DOMAIN EnterSends \ {"PortScan"}, NEW m \in EnterSends[screen],
         Moves(Press({m}), screen)
  PROVE  IInv'
  <1>1. screen \in {"Splash", "ContextMenu", "MigrationEnv", "MigrationDisposition", "Preflight",
                    "WorkspaceInput", "OptionalPackages"}
    BY DEF EnterSends
  <1>2. CASE screen = "Splash" /\ Moves(Press({"DetectionStarted"}), "Splash")
    <2>1. /\ "Splash" \in Screens
          /\ {"DetectionStarted"} \in SUBSET Messages
          /\ "Splash" \in DOMAIN Awaits
                => screen = "Splash" \/ {"DetectionStarted"} \intersect Awaits["Splash"] # {}
      BY <1>2 DEF Messages, Commands, Immediate, Results, Screens, Awaits
    <2>2. /\ SessionInv' /\ screen' = "Splash" /\ Typed({"DetectionStarted"})
          /\ UNCHANGED <<capable, menu, lease, handoff, auth, restored>>
      BY <1>2, <2>1, MovedByKey
    <2> QED
      BY <1>2, <2>2, SetsOfMessages DEF IInv, FlowInv, Awaits, Typed
  <1>3. CASE screen = "ContextMenu"
    <2>1. m \in {"InstallSelected", "UpdateSelected", "UninstallSelected", "MigrationSelected"}
          /\ (m \in {"UpdateSelected", "UninstallSelected"} => menu = "Current")
          /\ (m = "InstallSelected" => menu = "NotInstalled")
          /\ (m = "MigrationSelected" => menu = "LegacyPM2")
      BY <1>3 DEF EnterSends, Offers, IInv, SessionInv, TypeOK
    <2>2. /\ SessionInv' /\ screen' = screen /\ Typed({m})
          /\ UNCHANGED <<capable, menu, lease, handoff, auth, restored>>
      BY <1>3, <2>1, MovedByKey DEF Messages, Immediate, Screens, Awaits
    <2> QED
      BY <1>3, <2>1, <2>2, SetsOfMessages DEF IInv, FlowInv, Awaits, Typed
  <1>4. CASE screen = "MigrationEnv" /\ Moves(Press({"EnvironmentSelected"}), "MigrationEnv")
    <2>1. /\ "MigrationEnv" \in Screens
          /\ {"EnvironmentSelected"} \in SUBSET Messages
          /\ "MigrationEnv" \in DOMAIN Awaits
                => \/ screen = "MigrationEnv"
                   \/ {"EnvironmentSelected"} \intersect Awaits["MigrationEnv"] # {}
      BY <1>4 DEF Messages, Commands, Immediate, Results, Screens, Awaits
    <2>2. /\ SessionInv' /\ screen' = "MigrationEnv" /\ Typed({"EnvironmentSelected"})
          /\ UNCHANGED <<capable, menu, lease, handoff, auth, restored>>
      BY <1>4, <2>1, MovedByKey
    <2> QED
      BY <1>4, <2>2, SetsOfMessages DEF IInv, FlowInv, Awaits, Typed
  <1>5. CASE /\ screen = "MigrationDisposition"
            /\ Moves(Press({"DispositionStop"}), "MigrationDisposition")
    <2>1. /\ "MigrationDisposition" \in Screens
          /\ {"DispositionStop"} \in SUBSET Messages
          /\ "MigrationDisposition" \in DOMAIN Awaits
                => \/ screen = "MigrationDisposition"
                   \/ {"DispositionStop"} \intersect Awaits["MigrationDisposition"] # {}
      BY <1>5 DEF Messages, Commands, Immediate, Results, Screens, Awaits
    <2>2. /\ SessionInv' /\ screen' = "MigrationDisposition" /\ Typed({"DispositionStop"})
          /\ UNCHANGED <<capable, menu, lease, handoff, auth, restored>>
      BY <1>5, <2>1, MovedByKey
    <2> QED
      BY <1>5, <2>2, SetsOfMessages DEF IInv, FlowInv, Awaits, Typed
  <1>6. CASE /\ screen = "MigrationDisposition"
            /\ Moves(Press({"DispositionRemove"}), "MigrationDisposition")
    <2>1. /\ "MigrationDisposition" \in Screens
          /\ {"DispositionRemove"} \in SUBSET Messages
          /\ "MigrationDisposition" \in DOMAIN Awaits
                => \/ screen = "MigrationDisposition"
                   \/ {"DispositionRemove"} \intersect Awaits["MigrationDisposition"] # {}
      BY <1>6 DEF Messages, Commands, Immediate, Results, Screens, Awaits
    <2>2. /\ SessionInv' /\ screen' = "MigrationDisposition" /\ Typed({"DispositionRemove"})
          /\ UNCHANGED <<capable, menu, lease, handoff, auth, restored>>
      BY <1>6, <2>1, MovedByKey
    <2> QED
      BY <1>6, <2>2, SetsOfMessages DEF IInv, FlowInv, Awaits, Typed
  <1>7. CASE screen \in {"Preflight", "WorkspaceInput", "OptionalPackages"}
    <2>1. screen \in InstallScreens /\ {m} \in SUBSET InstallMessages /\ screen \in Screens
          /\ screen \notin DOMAIN Awaits
      BY <1>7 DEF EnterSends, InstallScreens, InstallMessages, Screens, Awaits
    <2> QED
      BY <2>1, InstallMovedByKey
  <1>8. /\ screen = "Splash" => m = "DetectionStarted"
        /\ screen = "MigrationEnv" => m = "EnvironmentSelected"
        /\ screen = "MigrationDisposition" => m \in {"DispositionStop", "DispositionRemove"}
    BY DEF EnterSends
  <1> QED
    BY <1>1, <1>2, <1>3, <1>4, <1>5, <1>6, <1>7, <1>8

\* Enter, on each screen.
LEMMA EnterStep ==
  ASSUME IInv, Enter
  PROVE  IInv'
  <1>1. CASE screen = "BackupConfirm" /\ Moves(Press({"backup"}), "BackupRunning")
    <2>1. /\ "BackupRunning" \in Screens
          /\ {"backup"} \in SUBSET Messages
          /\ "BackupRunning" \in DOMAIN Awaits
                => screen = "BackupRunning" \/ {"backup"} \intersect Awaits["BackupRunning"] # {}
      BY <1>1 DEF Messages, Commands, Immediate, Results, Screens, Awaits
    <2>2. /\ SessionInv' /\ screen' = "BackupRunning" /\ Typed({"backup"})
          /\ UNCHANGED <<capable, menu, lease, handoff, auth, restored>>
      BY <1>1, <2>1, MovedByKey
    <2> QED
      BY <1>1, <2>2, SetsOfMessages DEF IInv, FlowInv, Awaits, Typed
  <1>2. CASE screen = "MigrationConfirm" /\ Moves(Press({}), "MigrationDisposition")
    <2>1. /\ "MigrationDisposition" \in Screens
          /\ {} \in SUBSET Messages
          /\ "MigrationDisposition" \in DOMAIN Awaits
                => \/ screen = "MigrationDisposition"
                   \/ {} \intersect Awaits["MigrationDisposition"] # {}
      BY <1>2 DEF Messages, Commands, Immediate, Results, Screens, Awaits
    <2>2. /\ SessionInv' /\ screen' = "MigrationDisposition" /\ Typed({})
          /\ UNCHANGED <<capable, menu, lease, handoff, auth, restored>>
      BY <1>2, <2>1, MovedByKey
    <2> QED
      BY <1>2, <2>2, SetsOfMessages DEF IInv, FlowInv, Awaits, Typed
  <1>3. CASE /\ Press({"refresh"})
             /\ screen = "MigrationRemoveConfirm" /\ screen' = "MigrationAuthRefresh"
             /\ auth' = [auth EXCEPT !.quiescence = TRUE]
             /\ UNCHANGED <<sessionVars, lease, handoff, restored, code, exempt, interrupted,
                            checkVars, endVars, polls>>
    <2>1. OtherTypeOK' /\ (exempt' => lease')
      BY <1>3 DEF IInv, SessionInv, TypeOK, LeaseAccountedFor, OtherTypeOK, Screens, Awaits,
         sessionVars, leaseVars, checkVars, endVars
    <2>2. /\ {"refresh"} \in SUBSET Messages
          /\ screen' \in DOMAIN Awaits =>
                 screen' = screen \/ {"refresh"} \intersect Awaits[screen'] # {}
      BY <1>3 DEF Messages, Commands, Immediate, Results, Screens, Awaits
    <2>3. SessionInv' /\ Typed({"refresh"})
      BY <1>3, <2>1, <2>2, KeptByKey DEF sessionVars, endVars
    <2> QED
      BY <1>3, <2>3, SetsOfMessages DEF IInv, FlowInv, Awaits, Typed, sessionVars, leaseVars,
         endVars
  <1>4. ASSUME screen \in DOMAIN EnterSends \ {"PortScan"}, NEW m \in EnterSends[screen],
               Moves(Press({m}), screen)
        PROVE  IInv'
    BY <1>4, EnterSendsStep
  <1>5. CASE /\ screen = "PortScan" /\ Press({"PortsConfirmed"}) /\ resolving' = FALSE
             /\ UNCHANGED <<screen, capable, prompt, faults, menu, docker, asterisk, leaseVars,
                            checkVars, endVars, polls>>
    BY <1>5, PortResolvedStep
  <1>6. screen = "PortScan" => EnterSends[screen] \subseteq {"PortsConfirmed"}
    BY DEF EnterSends
  <1>7. CASE screen = "Result" /\ Quit
    BY <1>7, QuitStep
  <1> QED
    BY <1>1, <1>2, <1>3, <1>4, <1>5, <1>6, <1>7 DEF Enter, AuthorizeMigrationQuiescence

\* The key that asks for the health once more.
LEMMA RefreshKeyStep ==
  ASSUME IInv, RefreshKey
  PROVE  IInv'
  <1>1. CASE screen = "Verify" /\ Moves(Press({"HealthTick"}), "Verify")
    <2>1. /\ "Verify" \in Screens
          /\ {"HealthTick"} \in SUBSET Messages
          /\ "Verify" \in DOMAIN Awaits
                => screen = "Verify" \/ {"HealthTick"} \intersect Awaits["Verify"] # {}
      BY <1>1 DEF Messages, Commands, Immediate, Results, Screens, Awaits
    <2>2. /\ SessionInv' /\ screen' = "Verify" /\ Typed({"HealthTick"})
          /\ UNCHANGED <<capable, menu, lease, handoff, auth, restored>>
      BY <1>1, <2>1, MovedByKey
    <2> QED
      BY <1>1, <2>2, SetsOfMessages DEF IInv, FlowInv, Awaits, Typed
  <1>2. CASE screen = "PortScan" /\ Moves(Press({"portScan"}), screen)
    <2>1. screen \in InstallScreens /\ {"portScan"} \in SUBSET InstallMessages
          /\ screen \in Screens /\ screen \notin DOMAIN Awaits
      BY <1>2 DEF InstallScreens, InstallMessages, Screens, Awaits
    <2> QED
      BY <1>2, <2>1, InstallMovedByKey
  <1> QED
    BY <1>1, <1>2 DEF RefreshKey

-----------------------------------------------------------------------------
(* The theorems.                                                            *)

HIDE DEF StartInv, PlainInv, EarlyInv, LateInv, None, AtMostOne, Migrating, Early, EarlyScreens,
         EarlyAwaited, Stale, Gone, LateScreens, MigrationMessages, MigrationScreens

\* The invariant holds at the start.
LEMMA InitInv == Init => IInv
  <1> SUFFICES ASSUME Init PROVE IInv
    OBVIOUS
  <1>1. TypeOK
    <2>1. inflight \in [Messages -> Nat]
      BY DEF Init
    <2>2. hasty \in 0..MaxHasty /\ polls \in 0..MaxPolls
      BY BoundsAssumption DEF Init
    <2>3. screen \in Screens /\ menu \in DOMAIN Offers
      BY DEF Init, Screens, Offers
    <2> QED
      BY <2>1, <2>2, <2>3 DEF Init, TypeOK
  <1>2. NoScreenIsStuck /\ LeaseAccountedFor /\ FixInv
    BY DEF Init, NoScreenIsStuck, LeaseAccountedFor, FixInv, Awaits
  <1>3. \A k \in Messages : inflight[k] = 0
    BY DEF Init
  <1>4. StartInv
    BY <1>3, SetsOfMessages DEF Init, StartInv, None, AtMostOne
  <1>5. PlainInv /\ ~Migrating
    BY <1>3, SetsOfMessages DEF Init, PlainInv, None, Migrating, MigrationScreens
  <1> QED
    BY <1>1, <1>2, <1>4, <1>5 DEF IInv, SessionInv, FlowInv, EarlyInv, LateInv

\* Every step keeps the invariant.
LEMMA NextInv == IInv /\ [Next]_vars => IInv'
  <1> SUFFICES ASSUME IInv, [Next]_vars PROVE IInv'
    OBVIOUS
  <1>1. CASE UNCHANGED vars
    BY <1>1 DEF vars, sessionVars, leaseVars, checkVars, endVars, IInv, SessionInv, FlowInv,
       TypeOK, NoScreenIsStuck, LeaseAccountedFor, FixInv, StartInv, PlainInv, EarlyInv,
       LateInv, Early, None, AtMostOne, Migrating
  <1>2. CASE Keys
    BY <1>2, InterruptStep, EnterStep, BootstrapKeyStep, RefreshKeyStep DEF Keys
  <1>3. CASE Run
    BY <1>3, RunBeginStep, RunCompletionStep, RunRestoreStep DEF Run
  <1>4. CASE Receive
    BY <1>4, DetectionStep, ContextActionStep, MenuStep, BeforeHandoffStep, DispositionStep,
       QuiescenceStep, AuthorizationStep, CompletionStep, PreflightStep, FixStep,
       BootstrapCompletedStep, InstallMovesStep, PackagesStep, PortsStep, DeployStep,
       RestoreStep, HealthStep, SuccessStep, FailureStep, IgnoredStep DEF Receive
  <1>5. CASE Ended
    BY <1>1, <1>5 DEF Ended
  <1> QED
    BY <1>1, <1>2, <1>3, <1>4, <1>5 DEF Next

\* The inductive invariant holds in every state, whatever the order of messages and keys.
THEOREM Invariance == Spec => []IInv
  BY InitInv, NextInv, PTL DEF Spec

\* Every variable keeps its type, however many messages are in flight.
THEOREM TypeCorrect == Spec => []TypeOK
  <1>1. IInv => TypeOK
    BY DEF IInv, SessionInv
  <1> QED
    BY <1>1, Invariance, PTL

\* A screen that waits for a command is never left without one, however many keys were
\* pressed too early and in whatever order the messages come.
THEOREM NoScreenWaitsInVain == Spec => []NoScreenIsStuck
  <1>1. IInv => NoScreenIsStuck
    BY DEF IInv, SessionInv
  <1> QED
    BY <1>1, Invariance, PTL

\* With one detection the program never ends while the handoff's lease is live, and the
\* legacy ports are exempt only under a lease.
THEOREM LeaseIsAccountedFor == Spec => []LeaseAccountedFor
  <1>1. IInv => LeaseAccountedFor
    BY DEF IInv, SessionInv
  <1> QED
    BY <1>1, Invariance, PTL

\* With one detection no migration succeeds without its restore.
THEOREM SuccessIsRestored == Spec => []SuccessNeedsRestore
  <1>1. IInv => SuccessNeedsRestore
    <2> SUFFICES ASSUME IInv, handoff = "released", ~again PROVE restored
      BY DEF SuccessNeedsRestore
    <2>1. StartInv /\ PlainInv /\ EarlyInv /\ LateInv
      BY DEF IInv, FlowInv
    <2>2. Migrating
      BY <2>1 DEF PlainInv
    <2>3. ~Early
      BY <2>1, <2>2 DEF EarlyInv
    <2> QED
      BY <2>1, <2>2, <2>3 DEF LateInv
  <1> QED
    BY <1>1, Invariance, PTL

\* Where messages sent at once come first, no fix that has run is run again.
THEOREM FixesRunOnce == Spec => []FixesNotRepeated
  <1>1. IInv => FixesNotRepeated
    BY DEF IInv, SessionInv, FixInv, FixesNotRepeated
  <1> QED
    BY <1>1, Invariance, PTL

-----------------------------------------------------------------------------
(* How the session uses the handoff.                                        *)

\* Completions, and the answers of Begin that carry a lease.
LeaseMessages == {"completeFailure", "completeSuccess", "LeaseGranted", "LeaseAfterFailure"}

\* A lease, and whatever concerns one, comes from the handoff.
HeldInv ==
    lease \/ (\E k \in LeaseMessages : inflight[k] > 0) => handoff # "none"

\* A lease that came with an error: all that is under way is its recovery.
Salvaged == ~again /\ lease /\ ~exempt
RecoveryMessages == {"refresh", "completeFailure", "RecoveryVerified", "RecoveryUnproven"}
SalvageInv ==
    Salvaged =>
        /\ screen \in {"MigrationAuthRefresh", "MigrationRecovery"}
        /\ screen = "MigrationAuthRefresh" => auth.recovery
        /\ None(Messages \ (Stale \union RecoveryMessages))

\* A step that neither has to do with the lease nor starts a completion.
NoNews ==
    /\ \A k \in LeaseMessages : inflight'[k] > 0 => inflight[k] > 0
    /\ UNCHANGED <<lease, exempt, handoff>>

\* Only what a step issues can be in flight that was not before.
LEMMA Sent ==
  ASSUME TypeOK, NEW m, NEW issued, Handle(m, issued) \/ Press(issued)
  PROVE  /\ \A k \in Messages \ issued : inflight'[k] > 0 => inflight[k] > 0
         /\ again => again'
  <1>1. inflight \in [Messages -> Nat]
    BY DEF TypeOK
  <1>2. \A k \in Messages \ issued : inflight'[k] > 0 => inflight[k] > 0
    BY <1>1 DEF Handle, Press, One
  <1>3. CASE Handle(m, issued)
    BY <1>2, <1>3 DEF Handle
  <1>4. CASE Press(issued)
    BY <1>2, <1>4, Pressed DEF Typed
  <1> QED
    BY <1>3, <1>4

\* The lease's messages are messages.
LEMMA AboutTheLease == LeaseMessages \subseteq Messages
  BY DEF LeaseMessages, Messages, Commands, Results

\* The steps of Update before the lease have nothing to do with it.
LEMMA EarlyNoNews ==
  ASSUME TypeOK,
         \/ DetectionStarted \/ DetectionCompleted \/ OperationDismissed \/ DockerAuthenticated
         \/ UpdateCompleted \/ EnvironmentSelected \/ MigrationAuthenticated
         \/ BackupPreflightCompleted \/ BackupCompleted \/ DispositionSelected
         \/ \E action \in UNION {Offers[d] : d \in DOMAIN Offers} : ContextActionSelected(action)
  PROVE  NoNews
  <1>1. PICK m, issued : /\ Handle(m, issued) /\ UNCHANGED <<lease, exempt, handoff>>
                         /\ issued \intersect LeaseMessages = {}
    BY DEF DetectionStarted, DetectionCompleted, OperationDismissed, DockerAuthenticated,
       UpdateCompleted, EnvironmentSelected, MigrationAuthenticated, BackupPreflightCompleted,
       BackupCompleted, DispositionSelected, AuthorizeMigrationQuiescence, ContextActionSelected,
       Moves, leaseVars, LeaseMessages
  <1> QED
    BY <1>1, Sent, AboutTheLease DEF NoNews

\* Nor have the steps of an installation.
LEMMA InstallNoNews ==
  ASSUME TypeOK,
         \/ PreflightResult \/ FixCompleted \/ BootstrapCompleted \/ BootstrapSkipped
         \/ PreflightPassed \/ WorkspaceEntered \/ PackagesConfirmed \/ PortsScanned
         \/ PortsConfirmed \/ EnvWritten \/ AsteriskSetupCompleted \/ PullStarted
  PROVE  NoNews
  <1>1. CASE PreflightResult
    <2>1. Handle("preflight", {}) /\ UNCHANGED <<lease, exempt, handoff>>
      BY <1>1 DEF PreflightResult, leaseVars
    <2> QED
      BY <2>1, Sent, AboutTheLease DEF NoNews
  <1>2. CASE FixCompleted
    <2>1. PICK m, issued : /\ Handle(m, issued) /\ UNCHANGED <<lease, exempt, handoff>>
                           /\ issued \intersect LeaseMessages = {}
      <3> DEFINE left == boot.left \ {CHOOSE a \in boot.left : TRUE}
                 next == IF left = {} THEN {"BootstrapComplete"} ELSE {"fix"}
      <3>1. next \intersect LeaseMessages = {} /\ {} \intersect LeaseMessages = {}
        BY DEF LeaseMessages
      <3>2. UNCHANGED <<lease, exempt, handoff>>
        BY <1>2 DEF FixCompleted, Moves, leaseVars
      <3>3. Handle("fix", {}) \/ Handle("fix", next)
        BY <1>2 DEF FixCompleted, Moves
      <3> HIDE DEF next
      <3> QED
        BY <3>1, <3>2, <3>3
    <2> QED
      BY <2>1, Sent, AboutTheLease DEF NoNews
  <1>3. CASE ~PreflightResult /\ ~FixCompleted
    <2>1. PICK m, issued : /\ Handle(m, issued) /\ UNCHANGED <<lease, exempt, handoff>>
                           /\ issued \intersect LeaseMessages = {}
      BY <1>3 DEF BootstrapCompleted, BootstrapSkipped, PreflightPassed, WorkspaceEntered,
         PackagesConfirmed, PortsScanned, PortsConfirmed, EnvWritten, AsteriskSetupCompleted,
         PullStarted, Moves, leaseVars, LeaseMessages
    <2> QED
      BY <2>1, Sent, AboutTheLease DEF NoNews
  <1> QED
    BY <1>1, <1>2, <1>3

\* Nor the deployment, the restore and the health checks up to their verdict, and a result
\* that is dropped.
LEMMA DeployNoNews ==
  ASSUME TypeOK,
         \/ PullCompleted \/ DeployStarted \/ DeployCompleted \/ RestoreCompleted \/ HealthTick
         \/ InstallFailed \/ Ignored \/ AuthorizationChecked \/ RunRestore
  PROVE  NoNews
  <1>1. CASE HealthTick
    <2>1. PICK m, issued : /\ Handle(m, issued) /\ UNCHANGED <<lease, exempt, handoff>>
                           /\ issued \intersect LeaseMessages = {}
      BY <1>1 DEF HealthTick, Moves, leaseVars, LeaseMessages
    <2> QED
      BY <2>1, Sent, AboutTheLease DEF NoNews
  <1>2. CASE InstallFailed \/ Ignored
    <2>1. PICK m, issued : /\ Handle(m, issued) /\ UNCHANGED <<lease, exempt, handoff>>
                           /\ issued \intersect LeaseMessages = {}
      BY <1>2 DEF InstallFailed, Ignored, BeginMigrationRecovery, Moves, leaseVars, LeaseMessages
    <2> QED
      BY <2>1, Sent, AboutTheLease DEF NoNews
  <1>3. CASE ~HealthTick /\ ~InstallFailed /\ ~Ignored
    <2>1. PICK m, issued : /\ Handle(m, issued) /\ UNCHANGED <<lease, exempt, handoff>>
                           /\ issued \intersect LeaseMessages = {}
      BY <1>3 DEF PullCompleted, DeployStarted, DeployCompleted, RestoreCompleted, RunRestore,
         AuthorizationChecked, BeginMigrationRecovery, Moves, leaseVars, LeaseMessages
    <2> QED
      BY <2>1, Sent, AboutTheLease DEF NoNews
  <1> QED
    BY <1>1, <1>2, <1>3

\* Nor the keys.
LEMMA KeysNoNews ==
  ASSUME TypeOK, Keys
  PROVE  NoNews
  <1>1. ASSUME NEW key \in {"ctrl+c", "esc", "q"}, Interrupt(key) PROVE NoNews
    <2>1. PICK issued : /\ Press(issued) /\ UNCHANGED <<lease, exempt, handoff>>
                        /\ issued \intersect LeaseMessages = {}
      BY <1>1 DEF Interrupt, BeginMigrationRecovery, Quit, Moves, leaseVars, LeaseMessages
    <2> QED
      BY <2>1, Sent, AboutTheLease DEF NoNews
  <1>2. CASE Enter
    <2>1. \A s \in DOMAIN EnterSends : EnterSends[s] \intersect LeaseMessages = {}
      BY DEF EnterSends, Offers, LeaseMessages, TypeOK
    <2>2. PICK issued : /\ Press(issued) /\ UNCHANGED <<lease, exempt, handoff>>
                        /\ issued \intersect LeaseMessages = {}
      <3>1. CASE \E m \in EnterSends[screen] : screen \in DOMAIN EnterSends /\ Press({m})
        <4>1. PICK m \in EnterSends[screen] : screen \in DOMAIN EnterSends /\ Press({m})
          BY <3>1
        <4>2. {m} \intersect LeaseMessages = {}
          BY <2>1, <4>1
        <4>3. UNCHANGED <<lease, exempt, handoff>>
          BY <1>2 DEF Enter, Quit, AuthorizeMigrationQuiescence, Moves, leaseVars
        <4> QED
          BY <4>1, <4>2, <4>3
      <3>2. CASE ~\E m \in EnterSends[screen] : screen \in DOMAIN EnterSends /\ Press({m})
        <4>1. "PortScan" \in DOMAIN EnterSends
          BY DEF EnterSends
        <4> QED
          BY <1>2, <3>2, <4>1 DEF Enter, Quit, AuthorizeMigrationQuiescence, Moves, leaseVars,
             LeaseMessages
      <3> QED
        BY <3>1, <3>2
    <2> QED
      BY <2>2, Sent, AboutTheLease DEF NoNews
  <1>3. CASE BootstrapKey \/ RefreshKey
    <2>1. PICK issued : /\ Press(issued) /\ UNCHANGED <<lease, exempt, handoff>>
                        /\ issued \intersect LeaseMessages = {}
      BY <1>3 DEF BootstrapKey, RefreshKey, Moves, leaseVars, LeaseMessages
    <2> QED
      BY <2>1, Sent, AboutTheLease DEF NoNews
  <1> QED
    BY <1>1, <1>2, <1>3 DEF Keys

\* Whatever concerns a lease comes from the handoff, which never forgets one.
LEMMA HeldStep == TypeOK /\ HeldInv /\ [Next]_vars => HeldInv'
  <1> SUFFICES ASSUME TypeOK, HeldInv, [Next]_vars PROVE HeldInv'
    OBVIOUS
  <1>1. CASE UNCHANGED vars
    BY <1>1 DEF vars, leaseVars, HeldInv
  <1>2. CASE NoNews
    BY <1>2 DEF NoNews, HeldInv
  <1>3. CASE RunBegin
    <2>1. PICK m \in {"QuiescenceFailed", "LeaseGranted", "LeaseAfterFailure"} :
              /\ Handle("begin", {m}) /\ UNCHANGED lease
              /\ handoff' = IF m = "QuiescenceFailed" THEN handoff ELSE "live"
      BY <1>3 DEF RunBegin
    <2>2. m = "QuiescenceFailed" => \A k \in LeaseMessages : inflight'[k] > 0 => inflight[k] > 0
      BY <2>1, Sent, AboutTheLease DEF LeaseMessages
    <2> QED
      BY <2>1, <2>2 DEF HeldInv
  <1>4. CASE RunCompleteFailure \/ RunCompleteSuccess
    <2>1. PICK m, issued : m \in {"completeFailure", "completeSuccess"} /\ Handle(m, issued)
      BY <1>4 DEF RunCompleteFailure, RunCompleteSuccess
    <2>2. handoff # "none"
      BY <2>1 DEF Handle, HeldInv, LeaseMessages
    <2> QED
      BY <1>4, <2>2 DEF RunCompleteFailure, RunCompleteSuccess, HeldInv
  <1>5. CASE QuiescenceCompleted
    <2>1. PICK m, issued :
              /\ m \in {"LeaseGranted", "LeaseAfterFailure", "QuiescenceFailed"}
              /\ Handle(m, issued) /\ issued \intersect LeaseMessages = {}
              /\ UNCHANGED handoff /\ (m = "QuiescenceFailed" => UNCHANGED lease)
      BY <1>5 DEF QuiescenceCompleted, LeaseMessages
    <2>2. m # "QuiescenceFailed" => handoff # "none"
      BY <2>1 DEF Handle, HeldInv, LeaseMessages
    <2>3. \A k \in LeaseMessages : inflight'[k] > 0 => inflight[k] > 0
      BY <2>1, Sent, AboutTheLease
    <2> QED
      BY <2>1, <2>2, <2>3 DEF HeldInv
  <1>6. CASE RecoveryCompleted \/ SuccessCompleted
    <2>1. PICK m : Handle(m, {}) /\ UNCHANGED handoff /\ ~lease'
      BY <1>6 DEF RecoveryCompleted, SuccessCompleted
    <2>2. \A k \in LeaseMessages : inflight'[k] > 0 => inflight[k] > 0
      BY <2>1, Sent, AboutTheLease
    <2> QED
      BY <2>1, <2>2 DEF HeldInv
  <1>7. CASE AuthorizationRefreshed \/ InstallSucceeded
    <2>1. UNCHANGED <<lease, handoff>>
      BY <1>7 DEF AuthorizationRefreshed, InstallSucceeded, Moves, leaseVars
    <2>2. CASE lease
      BY <2>1, <2>2 DEF HeldInv
    <2>3. CASE ~lease
      <3>1. PICK m, issued : Handle(m, issued) /\ issued \intersect LeaseMessages = {}
        BY <1>7, <2>3 DEF AuthorizationRefreshed, InstallSucceeded, RecoveryCommand, Moves,
           LeaseMessages
      <3>2. \A k \in LeaseMessages : inflight'[k] > 0 => inflight[k] > 0
        BY <3>1, Sent, AboutTheLease
      <3> QED
        BY <2>1, <3>2 DEF HeldInv
    <2> QED
      BY <2>2, <2>3
  <1>8. CASE Keys
    BY <1>2, <1>8, KeysNoNews
  <1>9. CASE Run
    BY <1>2, <1>3, <1>4, <1>9, DeployNoNews DEF Run
  <1>10. CASE Receive
    BY <1>2, <1>5, <1>6, <1>7, <1>10, EarlyNoNews, InstallNoNews, DeployNoNews DEF Receive
  <1> QED
    BY <1>1, <1>8, <1>9, <1>10 DEF Next, Ended

\* Under a salvaged lease no other message is taken than those of its recovery.
LEMMA SalvageWaits ==
  ASSUME TypeOK, SalvageInv, Salvaged, NEW m \in Messages, NEW issued, Handle(m, issued)
  PROVE  m \in Stale \union RecoveryMessages
  <1>1. \A k \in Messages \ (Stale \union RecoveryMessages) : inflight[k] = 0
    BY DEF SalvageInv, None
  <1>2. inflight[m] > 0
    BY DEF Handle
  <1> QED
    BY <1>1, <1>2

\* Of the handlers, only those of the recovery run.
LEMMA SalvageHandlers ==
  ASSUME TypeOK, SalvageInv, Salvaged, Run \/ Receive
  PROVE  \/ \E m : Moves(Handle(m, {}), screen)
         \/ RunCompleteFailure
         \/ RecoveryCompleted
         \/ AuthorizationRefreshed /\ screen = "MigrationAuthRefresh" /\ auth.recovery
  <1>1. screen \in {"MigrationAuthRefresh", "MigrationRecovery"}
        /\ (screen = "MigrationAuthRefresh" => auth.recovery)
    BY DEF SalvageInv
  <1>2. ~\/ DetectionStarted \/ DetectionCompleted \/ OperationDismissed \/ UpdateCompleted
         \/ PreflightResult \/ BootstrapCompleted \/ BootstrapSkipped \/ PreflightPassed
         \/ WorkspaceEntered \/ PackagesConfirmed \/ PortsConfirmed \/ EnvWritten
         \/ AsteriskSetupCompleted \/ PullStarted \/ PullCompleted \/ DeployStarted
    <2>1. ASSUME NEW m \in {"DetectionStarted", "detect", "OperationDismissed", "update",
                            "preflight", "BootstrapComplete", "BootstrapSkipped",
                            "PreflightPassed", "WorkspaceEntered", "PackagesConfirmed",
                            "PortsConfirmed", "envWrite", "asterisk", "PullStarted", "pull",
                            "DeployStarted"},
                 NEW issued, Handle(m, issued)
          PROVE  FALSE
      <3>1. m \in Messages
        BY <2>1 DEF Messages, Commands, Immediate
      <3>2. m \notin Stale \union RecoveryMessages
        BY <2>1 DEF RecoveryMessages, Stale
      <3> QED
        BY <2>1, <3>1, <3>2, SalvageWaits
    <2> QED
      BY <2>1 DEF DetectionStarted, DetectionCompleted, OperationDismissed, UpdateCompleted,
         PreflightResult, BootstrapCompleted, BootstrapSkipped, PreflightPassed,
         WorkspaceEntered, PackagesConfirmed, PortsConfirmed, EnvWritten,
         AsteriskSetupCompleted, PullStarted, PullCompleted, DeployStarted, Moves
  <1>3. ~\/ DockerAuthenticated \/ EnvironmentSelected \/ MigrationAuthenticated
         \/ BackupPreflightCompleted \/ BackupCompleted \/ DispositionSelected
         \/ QuiescenceCompleted \/ AuthorizationChecked \/ SuccessCompleted \/ FixCompleted
         \/ PortsScanned \/ DeployCompleted \/ RestoreCompleted \/ HealthTick
         \/ \E action \in UNION {Offers[d] : d \in DOMAIN Offers} : ContextActionSelected(action)
    BY <1>1 DEF DockerAuthenticated, EnvironmentSelected, MigrationAuthenticated,
       BackupPreflightCompleted, BackupCompleted, DispositionSelected, QuiescenceCompleted,
       AuthorizationChecked, SuccessCompleted, FixCompleted, PortsScanned, DeployCompleted,
       RestoreCompleted, HealthTick, ContextActionSelected
  <1>4. ~\/ InstallSucceeded \/ InstallFailed \/ RunBegin \/ RunCompleteSuccess \/ RunRestore
    <2>1. ASSUME NEW m \in {"InstallSuccess", "envWrite", "asterisk", "pull", "up",
                            "InstallFailure", "begin", "completeSuccess", "restore"},
                 NEW issued, Handle(m, issued)
          PROVE  FALSE
      <3>1. m \in Messages
        BY <2>1 DEF Messages, Commands, Immediate
      <3>2. m \notin Stale \union RecoveryMessages
        BY <2>1 DEF RecoveryMessages, Stale
      <3> QED
        BY <2>1, <3>1, <3>2, SalvageWaits
    <2> QED
      BY <2>1 DEF InstallSucceeded, InstallFailed, BeginMigrationRecovery, RunBegin,
         RunCompleteSuccess, RunRestore, Moves
  <1>5. AuthorizationRefreshed => screen = "MigrationAuthRefresh" /\ auth.recovery
    BY <1>1 DEF AuthorizationRefreshed
  <1>6. Ignored => \E m : Moves(Handle(m, {}), screen)
    BY DEF Ignored
  <1> QED
    BY <1>2, <1>3, <1>4, <1>5, <1>6 DEF Run, Receive

\* Of the keys, only an interrupt, which asks for the recovery again.
LEMMA SalvageKeys ==
  ASSUME TypeOK, SalvageInv, Salvaged, Keys
  PROVE  BeginMigrationRecovery(Press({"refresh"}))
  <1>1. screen \in {"MigrationAuthRefresh", "MigrationRecovery"} /\ lease
    BY DEF SalvageInv, Salvaged
  <1>2. ~Enter /\ ~BootstrapKey /\ ~RefreshKey
    BY <1>1 DEF Enter, EnterSends, BootstrapKey, RefreshKey
  <1>3. ASSUME NEW key \in {"ctrl+c", "esc", "q"}, Interrupt(key)
        PROVE  BeginMigrationRecovery(Press({"refresh"}))
    <2>1. screen \notin Declined(key)
      BY <1>1 DEF Declined
    <2> QED
      BY <1>1, <1>3, <2>1 DEF Interrupt
  <1> QED
    BY <1>2, <1>3 DEF Keys

\* A second detection is not forgotten.
LEMMA NeverLessAgain ==
  ASSUME [Next]_vars, again
  PROVE  again'
  <1>1. CASE UNCHANGED vars
    BY <1>1 DEF vars
  <1>2. ASSUME NEW m, NEW issued, Handle(m, issued) \/ Press(issued)
        PROVE  again'
    BY <1>2 DEF Handle, Press
  <1>3. CASE Keys
    <2>1. \E issued : Press(issued)
      BY <1>3 DEF Keys, Interrupt, Enter, BootstrapKey, RefreshKey, Quit, Moves,
         BeginMigrationRecovery, AuthorizeMigrationQuiescence
    <2> QED
      BY <1>2, <2>1
  <1>4. CASE Run
    <2>1. \E m, issued : Handle(m, issued)
      BY <1>4 DEF Run, RunBegin, RunCompleteFailure, RunCompleteSuccess, RunRestore
    <2> QED
      BY <1>2, <2>1
  <1>5. CASE Receive
    <2>1. \E m, issued : Handle(m, issued)
      BY <1>5 DEF Receive, DetectionStarted, DetectionCompleted, ContextActionSelected,
         OperationDismissed, DockerAuthenticated, UpdateCompleted, EnvironmentSelected,
         MigrationAuthenticated, BackupPreflightCompleted, BackupCompleted, DispositionSelected,
         QuiescenceCompleted, AuthorizationChecked, AuthorizationRefreshed, RecoveryCompleted,
         SuccessCompleted, PreflightResult, FixCompleted, BootstrapCompleted, BootstrapSkipped,
         PreflightPassed, WorkspaceEntered, PackagesConfirmed, PortsScanned, PortsConfirmed,
         EnvWritten, AsteriskSetupCompleted, PullStarted, PullCompleted, DeployStarted,
         DeployCompleted, RestoreCompleted, HealthTick, InstallSucceeded, InstallFailed, Ignored,
         Moves, BeginMigrationRecovery, AuthorizeMigrationQuiescence
    <2> QED
      BY <1>2, <2>1
  <1> QED
    BY <1>1, <1>3, <1>4, <1>5 DEF Next, Ended

\* A lease becomes a salvaged one only as Begin's answer, when nothing else is under way.
LEMMA SalvageBegins ==
  ASSUME IInv, IInv', [Next]_vars, ~Salvaged, Salvaged'
  PROVE  SalvageInv'
  <1>1. TypeOK /\ TypeOK'
    BY DEF IInv, SessionInv
  <1>2. lease' /\ ~exempt' /\ ~again'
    BY DEF Salvaged
  <1>3. CASE QuiescenceCompleted
    <2>1. \/ Handle("LeaseGranted", {"preflight"}) /\ exempt'
          \/ /\ screen = "MigrationQuiescence" /\ Handle("LeaseAfterFailure", {"refresh"})
             /\ screen' = "MigrationAuthRefresh" /\ auth' = [auth EXCEPT !.recovery = TRUE]
          \/ Handle("QuiescenceFailed", {}) /\ UNCHANGED <<lease, exempt>>
      BY <1>3 DEF QuiescenceCompleted
    <2>2. ~again
      BY <1>2, <2>1 DEF Handle
    <2>3. /\ screen = "MigrationQuiescence" /\ Handle("LeaseAfterFailure", {"refresh"})
          /\ screen' = "MigrationAuthRefresh" /\ auth' = [auth EXCEPT !.recovery = TRUE]
      BY <1>2, <2>1, <2>2 DEF Salvaged
    <2>4. Migrating /\ Early
      BY <2>2, <2>3 DEF IInv, FlowInv, PlainInv, MigrationScreens, Early, EarlyScreens
    <2>5. None(Messages \ (Stale \union EarlyAwaited)) /\ AtMostOne(EarlyAwaited)
      BY <2>2, <2>4 DEF IInv, FlowInv, EarlyInv
    <2>6. auth'.recovery
      BY <1>1, <2>3 DEF TypeOK
    <2>7. "LeaseAfterFailure" \in Messages /\ "refresh" \in Messages
      BY DEF Messages, Commands, Results
    <2>8. Delivered("LeaseAfterFailure", {"refresh"})
      BY <1>1, <2>3, <2>7, Handled
    <2>9. ASSUME NEW k \in Messages \ (Stale \union RecoveryMessages)
          PROVE  inflight'[k] = 0
      <3>1. k # "refresh"
        BY DEF RecoveryMessages
      <3>2. CASE k = "LeaseAfterFailure"
        <4>1. inflight["LeaseAfterFailure"] <= 1 /\ inflight["LeaseAfterFailure"] > 0
          BY <2>5, <2>8 DEF AtMostOne, EarlyAwaited, Delivered
        <4>2. inflight'["LeaseAfterFailure"] = inflight["LeaseAfterFailure"] - 1
          BY <2>8 DEF Delivered
        <4>3. inflight["LeaseAfterFailure"] \in Nat
          BY <1>1, <2>7 DEF TypeOK
        <4> QED
          BY <3>2, <4>1, <4>2, <4>3
      <3>3. CASE k # "LeaseAfterFailure"
        <4>1. inflight'[k] = inflight[k] /\ inflight[k] \in Nat
          BY <2>8, <3>1, <3>3 DEF Delivered
        <4>2. CASE k \in EarlyAwaited
          <5>1. ~(inflight[k] > 0)
            BY <2>5, <2>8, <3>3, <4>2 DEF AtMostOne, EarlyAwaited, Delivered
          <5> QED
            BY <4>1, <5>1
        <4>3. CASE k \notin EarlyAwaited
          BY <2>5, <4>1, <4>3 DEF None
        <4> QED
          BY <4>2, <4>3
      <3> QED
        BY <3>2, <3>3
    <2> QED
      BY <2>3, <2>6, <2>9 DEF SalvageInv, None
  <1>4. CASE NoNews
    <2>1. lease /\ ~exempt
      BY <1>2, <1>4 DEF NoNews
    <2>2. again
      BY <2>1 DEF Salvaged
    <2> QED
      BY <1>2, <2>2, NeverLessAgain
  <1>5. CASE UNCHANGED <<lease, exempt>>
    <2>1. again
      BY <1>2, <1>5 DEF Salvaged
    <2> QED
      BY <1>2, <2>1, NeverLessAgain
  <1>6. CASE RecoveryCompleted \/ SuccessCompleted
    BY <1>2, <1>6 DEF RecoveryCompleted, SuccessCompleted
  <1>7. CASE UNCHANGED vars
    BY <1>5, <1>7 DEF vars, leaseVars
  <1>8. CASE AuthorizationRefreshed \/ InstallSucceeded
    <2>1. UNCHANGED <<lease, exempt>>
      BY <1>8 DEF AuthorizationRefreshed, InstallSucceeded, Moves, leaseVars
    <2> QED
      BY <1>5, <2>1
  <1>9. CASE Keys
    BY <1>1, <1>4, <1>9, KeysNoNews
  <1>10. CASE Run
    <2>1. UNCHANGED <<lease, exempt>>
      BY <1>10 DEF Run, RunBegin, RunCompleteFailure, RunCompleteSuccess, RunRestore
    <2> QED
      BY <1>5, <2>1
  <1>11. CASE Receive
    BY <1>1, <1>3, <1>4, <1>6, <1>8, <1>11, EarlyNoNews, InstallNoNews, DeployNoNews DEF Receive
  <1> QED
    BY <1>7, <1>9, <1>10, <1>11 DEF Next, Ended

\* Until it is given up, a salvaged lease stays with its recovery.
LEMMA SalvageGoesOn ==
  ASSUME IInv, IInv', SalvageInv, [Next]_vars, Salvaged, Salvaged'
  PROVE  SalvageInv'
  <1>1. TypeOK /\ TypeOK'
    BY DEF IInv, SessionInv
  <1>2. /\ screen \in {"MigrationAuthRefresh", "MigrationRecovery"}
        /\ screen = "MigrationAuthRefresh" => auth.recovery
        /\ None(Messages \ (Stale \union RecoveryMessages))
    BY DEF SalvageInv
  <1>3. ASSUME NEW m, NEW issued, Handle(m, issued) \/ Press(issued),
               issued \subseteq RecoveryMessages
        PROVE  None(Messages \ (Stale \union RecoveryMessages))'
    <2>1. \A k \in Messages \ issued : inflight'[k] > 0 => inflight[k] > 0
      BY <1>1, <1>3, Sent
    <2>2. inflight \in [Messages -> Nat] /\ inflight' \in [Messages -> Nat]
      BY <1>1 DEF TypeOK
    <2>3. ASSUME NEW k \in Messages \ (Stale \union RecoveryMessages)
          PROVE  inflight'[k] = 0
      <3>1. inflight[k] = 0 /\ k \notin issued
        BY <1>2, <1>3 DEF None
      <3>2. inflight'[k] \in Nat /\ ~(inflight'[k] > 0)
        BY <2>1, <2>2, <3>1
      <3> QED
        BY <3>2
    <2> QED
      BY <2>3 DEF None
  <1>4. CASE UNCHANGED vars
    BY <1>2, <1>4 DEF vars, leaseVars, SalvageInv, None
  <1>5. CASE Keys
    <2>1. /\ Press({"refresh"}) /\ screen' = "MigrationAuthRefresh"
          /\ auth' = [auth EXCEPT !.recovery = TRUE]
      BY <1>1, <1>5, SalvageKeys DEF BeginMigrationRecovery
    <2>2. auth'.recovery
      BY <1>1, <2>1 DEF TypeOK
    <2>3. None(Messages \ (Stale \union RecoveryMessages))'
      BY <1>3, <2>1 DEF RecoveryMessages
    <2> QED
      BY <2>1, <2>2, <2>3 DEF SalvageInv
  <1>6. CASE \E m : Moves(Handle(m, {}), screen)
    <2>1. PICK m : Handle(m, {}) /\ UNCHANGED <<screen, auth>>
      BY <1>6 DEF Moves, leaseVars
    <2>2. None(Messages \ (Stale \union RecoveryMessages))'
      BY <1>3, <2>1
    <2> QED
      BY <1>2, <2>1, <2>2 DEF SalvageInv
  <1>7. CASE RunCompleteFailure
    <2>1. PICK verdict \in {"RecoveryVerified", "RecoveryUnproven"} :
              Handle("completeFailure", {verdict}) /\ UNCHANGED <<screen, auth>>
      BY <1>7 DEF RunCompleteFailure
    <2>2. None(Messages \ (Stale \union RecoveryMessages))'
      BY <1>3, <2>1 DEF RecoveryMessages
    <2> QED
      BY <1>2, <2>1, <2>2 DEF SalvageInv
  <1>8. CASE RecoveryCompleted
    BY <1>8 DEF RecoveryCompleted, Salvaged
  <1>9. CASE AuthorizationRefreshed /\ screen = "MigrationAuthRefresh" /\ auth.recovery
    <2>1. Handle("refresh", {"completeFailure"}) /\ screen' = "MigrationRecovery"
      BY <1>9 DEF AuthorizationRefreshed, RecoveryCommand, RecoveryScreen, Salvaged
    <2>2. None(Messages \ (Stale \union RecoveryMessages))'
      BY <1>3, <2>1 DEF RecoveryMessages
    <2> QED
      BY <2>1, <2>2 DEF SalvageInv
  <1>10. CASE Run \/ Receive
    BY <1>1, <1>6, <1>7, <1>8, <1>9, <1>10, SalvageHandlers
  <1> QED
    BY <1>4, <1>5, <1>10 DEF Next, Ended

\* What the handoff is used for holds in every state.
THEOREM LeaseUseInvariance == Spec => [](IInv /\ HeldInv /\ SalvageInv)
  <1>1. Init => IInv /\ HeldInv /\ SalvageInv
    <2> SUFFICES ASSUME Init PROVE HeldInv /\ SalvageInv
      BY InitInv
    <2>1. \A k \in LeaseMessages : inflight[k] = 0
      BY AboutTheLease DEF Init
    <2> QED
      BY <2>1 DEF Init, HeldInv, SalvageInv, Salvaged
  <1>2. IInv /\ HeldInv /\ SalvageInv /\ [Next]_vars => (IInv /\ HeldInv /\ SalvageInv)'
    <2> SUFFICES ASSUME IInv, HeldInv, SalvageInv, [Next]_vars
                 PROVE  IInv' /\ HeldInv' /\ SalvageInv'
      OBVIOUS
    <2>1. IInv' /\ HeldInv'
      <3>1. TypeOK
        BY DEF IInv, SessionInv
      <3>2. IInv'
        BY NextInv
      <3>3. HeldInv'
        BY <3>1, HeldStep
      <3> QED
        BY <3>2, <3>3
    <2>2. CASE ~Salvaged'
      BY <2>1, <2>2 DEF SalvageInv
    <2>3. CASE ~Salvaged /\ Salvaged'
      BY <2>1, <2>3, SalvageBegins
    <2>4. CASE Salvaged /\ Salvaged'
      BY <2>1, <2>4, SalvageGoesOn
    <2> QED
      BY <2>2, <2>3, <2>4
  <1> QED
    BY <1>1, <1>2, PTL DEF Spec

\* With one detection the session keeps what MigrationHandoff takes for granted of its
\* caller: one Begin, completions only of a lease that Begin returned, and no success of a
\* lease that came with an error.
THEOREM HandoffIsUsedAsGranted == Spec => []HandoffUsedAsGranted
  <1>1. IInv /\ HeldInv /\ SalvageInv => HandoffUsedAsGranted
    <2> SUFFICES ASSUME IInv, HeldInv, SalvageInv, ~again
                 PROVE  /\ inflight["begin"] > 0 => handoff = "none"
                        /\ lease \/ inflight["completeFailure"] > 0
                                 \/ inflight["completeSuccess"] > 0 => handoff # "none"
                        /\ inflight["completeSuccess"] > 0 /\ handoff = "live" => exempt
      BY DEF HandoffUsedAsGranted
    <2>1. TypeOK /\ PlainInv /\ EarlyInv /\ LateInv
      BY DEF IInv, SessionInv, FlowInv
    <2>2. {"begin", "completeSuccess", "LeaseGranted", "LeaseAfterFailure"} \subseteq Messages
      BY DEF Messages, Commands, Results
    <2>3. inflight["begin"] > 0 => handoff = "none"
      <3> SUFFICES ASSUME inflight["begin"] > 0 PROVE handoff = "none"
        OBVIOUS
      <3>1. Migrating
        BY <2>1 DEF PlainInv, None, MigrationMessages
      <3>2. Early
        BY <2>1, <3>1 DEF LateInv, None, Gone
      <3>3. ~(inflight["LeaseGranted"] > 0) /\ ~(inflight["LeaseAfterFailure"] > 0)
        BY <2>1, <3>1, <3>2 DEF EarlyInv, AtMostOne, EarlyAwaited
      <3> QED
        BY <2>1, <3>1, <3>2, <3>3 DEF EarlyInv
    <2>4. lease \/ inflight["completeFailure"] > 0 \/ inflight["completeSuccess"] > 0 =>
              handoff # "none"
      BY DEF HeldInv, LeaseMessages
    <2>5. inflight["completeSuccess"] > 0 /\ handoff = "live" => exempt
      <3> SUFFICES ASSUME inflight["completeSuccess"] > 0, handoff = "live", ~exempt
                   PROVE  FALSE
        OBVIOUS
      <3>1. Migrating
        BY <2>1 DEF PlainInv, None, MigrationMessages
      <3>2. "completeSuccess" \in Messages \ (Stale \union EarlyAwaited)
            /\ "completeSuccess" \in Messages \ (Stale \union RecoveryMessages)
        BY <2>2 DEF Stale, EarlyAwaited, RecoveryMessages
      <3>3. ~Early
        BY <2>1, <3>1, <3>2 DEF EarlyInv, None
      <3>4. lease
        BY <2>1, <3>1, <3>3 DEF LateInv
      <3> QED
        BY <3>2, <3>4 DEF SalvageInv, Salvaged, None
    <2> QED
      BY <2>3, <2>4, <2>5
  <1> QED
    BY <1>1, LeaseUseInvariance, PTL
=============================================================================
