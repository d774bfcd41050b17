------------------------- MODULE BackupActionProofs -------------------------
(***************************************************************************)
(* Proofs about the legacy-database backup: the operations on one          *)
(* destination, any number of them with any dumps, with or without         *)
(* crashes; and before them the discovery of the container that is dumped, *)
(* among any number of containers that change meanwhile.                   *)
(***************************************************************************)
EXTENDS BackupAction, ContainerDiscovery, TLAPS

\* From the creation of the staged dump to the rename that takes its name away.
Staged == {"credentials", "dump", "helper", "reconcile", "sync", "close", "validate",
           "validating", "hash", "writeManifest", "renameDump"}

\* From the creation of the lock to the close that removes it.
Locking == {"stage", "credentials", "dump", "helper", "reconcile", "sync", "close"}

CleaningUp == {"cleanupClose", "cleanupRemove"}

\* Before the client of the dump has ended.
Undumped == {"preconditions", "prepare", "stage", "credentials", "dump", "helper"}

\* An outcome is decided at the end, a validated one without a cleanup; the dump has a result
\* once its client has ended.
OutcomeInv ==
    \A o \in Operations :
        /\ pc[o] \notin CleaningUp \union {"done", "crashed"} => outcome[o] = "pending"
        /\ outcome[o] = "Validated" => pc[o] = "done"
        /\ pc[o] \in Undumped => process[o] = "none"

\* A staged dump and the lock belong to an operation that will still remove them.
StagedInv ==
    /\ \A o \in part : pc[o] \in Staged \union CleaningUp \union {"crashed"}
    /\ lock # NoOne => pc[lock] \in Locking \union CleaningUp \union {"crashed"}

\* So do the password file and the containers, unless the result tells of their staying.
SecretInv ==
    /\ \A o \in credential :
          \/ pc[o] \in {"dump", "helper", "reconcile", "crashed"}
          \/ outcome[o] = "HelperCleanupFailed" \/ process[o] = "none"
    /\ \A o \in helper :
          pc[o] \in {"helper", "reconcile", "crashed"} \/ outcome[o] = "HelperCleanupFailed"
    /\ \A o \in validator :
          pc[o] \in {"validating", "crashed"} \/ outcome[o] = "ValidationFailed"

\* The operations that own a published dump, and those that own a manifest; the rest of
\* the publication, and a validated result, belong to the owner.
Owns(o, steps) == pc[o] \in steps \/ outcome[o] = "Validated"
DumpSteps == {"renameManifest", "syncDirectory"}
ManifestSteps == {"syncDirectory", "unpublish"}

DumpInv ==
    /\ \A o \in Operations : Owns(o, DumpSteps) => dump[sum[o]] = o
    /\ \A x \in Sums : dump[x] # NoOne =>
          sum[dump[x]] = x /\ Owns(dump[x], DumpSteps \union {"crashed"})

ManifestInv ==
    /\ \A o \in Operations : Owns(o, ManifestSteps) => manifest[sum[o]] = o
    /\ \A x \in Sums : manifest[x] # NoOne =>
          sum[manifest[x]] = x /\ Owns(manifest[x], ManifestSteps \union {"crashed"})

\* The inductive invariant.
IInv == TypeOK /\ OutcomeInv /\ StagedInv /\ SecretInv /\ DumpInv /\ ManifestInv

USE DEF files, secrets, Goto, Return, Fail, CancelledAt, Undumped

\* A run that is refused has created nothing.
LEMMA PreconditionsInv ==
  ASSUME IInv, NEW o \in Operations, Preconditions(o)
  PROVE  IInv'
  <1> USE NoOneAssumption DEF IInv, Preconditions
  <1>1. TypeOK' /\ OutcomeInv'
    BY DEF TypeOK, OutcomeInv, Steps, Outcomes, ProcessOutcomes, CleaningUp
  <1>2. StagedInv' /\ SecretInv'
    BY DEF TypeOK, OutcomeInv, StagedInv, Staged, Locking, SecretInv, CleaningUp
  <1>3. DumpInv' /\ ManifestInv'
    BY DEF TypeOK, OutcomeInv, DumpInv, ManifestInv, Owns, DumpSteps, ManifestSteps,
       CleaningUp
  <1> QED BY <1>1, <1>2, <1>3

\* The lock is taken by the operation that created it.
LEMMA PrepareInv ==
  ASSUME IInv, NEW o \in Operations, Prepare(o)
  PROVE  IInv'
  <1> USE NoOneAssumption DEF IInv, Prepare
  <1>1. TypeOK' /\ OutcomeInv'
    BY DEF TypeOK, OutcomeInv, Steps, Outcomes, ProcessOutcomes, CleaningUp
  <1>2. StagedInv'
    BY DEF TypeOK, OutcomeInv, StagedInv, Staged, Locking, CleaningUp
  <1>3. SecretInv'
    BY DEF TypeOK, OutcomeInv, SecretInv, CleaningUp
  <1>4. DumpInv' /\ ManifestInv'
    BY DEF TypeOK, OutcomeInv, DumpInv, ManifestInv, Owns, DumpSteps, ManifestSteps,
       CleaningUp
  <1> QED BY <1>1, <1>2, <1>3, <1>4

\* The staged dump appears under the lock.
LEMMA StageDumpInv ==
  ASSUME IInv, NEW o \in Operations, StageDump(o)
  PROVE  IInv'
  <1> USE NoOneAssumption DEF IInv, StageDump
  <1>1. TypeOK' /\ OutcomeInv'
    BY DEF TypeOK, OutcomeInv, Steps, Outcomes, ProcessOutcomes, CleaningUp
  <1>2. StagedInv'
    BY DEF TypeOK, OutcomeInv, StagedInv, Staged, Locking, CleaningUp
  <1>3. SecretInv'
    BY DEF TypeOK, OutcomeInv, SecretInv, CleaningUp
  <1>4. DumpInv' /\ ManifestInv'
    BY DEF TypeOK, OutcomeInv, DumpInv, ManifestInv, Owns, DumpSteps, ManifestSteps,
       CleaningUp
  <1> QED BY <1>1, <1>2, <1>3, <1>4

\* The password file appears before the dump.
LEMMA PrepareCredentialInv ==
  ASSUME IInv, NEW o \in Operations, PrepareCredential(o)
  PROVE  IInv'
  <1> USE NoOneAssumption DEF IInv, PrepareCredential
  <1>1. TypeOK' /\ OutcomeInv'
    BY DEF TypeOK, OutcomeInv, Steps, Outcomes, ProcessOutcomes, CleaningUp
  <1>2. StagedInv'
    BY DEF TypeOK, OutcomeInv, StagedInv, Staged, Locking, CleaningUp
  <1>3. SecretInv'
    BY DEF TypeOK, OutcomeInv, SecretInv, CleaningUp
  <1>4. DumpInv' /\ ManifestInv'
    BY DEF TypeOK, OutcomeInv, DumpInv, ManifestInv, Owns, DumpSteps, ManifestSteps,
       CleaningUp
  <1> QED BY <1>1, <1>2, <1>3, <1>4

\* Without a helper the password file goes at once, or stays as that of a dump never started.
LEMMA StartHelperInv ==
  ASSUME IInv, NEW o \in Operations, StartHelper(o)
  PROVE  IInv'
  <1> USE NoOneAssumption DEF IInv, StartHelper
  <1>1. TypeOK' /\ OutcomeInv'
    BY DEF TypeOK, OutcomeInv, Steps, Outcomes, ProcessOutcomes, CleaningUp
  <1>2. StagedInv'
    BY DEF TypeOK, OutcomeInv, StagedInv, Staged, Locking, CleaningUp
  <1>3. SecretInv'
    BY DEF TypeOK, OutcomeInv, SecretInv, CleaningUp
  <1>4. DumpInv' /\ ManifestInv'
    BY DEF TypeOK, OutcomeInv, DumpInv, ManifestInv, Owns, DumpSteps, ManifestSteps,
       CleaningUp
  <1> QED BY <1>1, <1>2, <1>3, <1>4

\* The client ends, its container perhaps not.
LEMMA HelperEndsInv ==
  ASSUME IInv, NEW o \in Operations, HelperEnds(o)
  PROVE  IInv'
  <1> USE NoOneAssumption DEF IInv, HelperEnds
  <1>1. TypeOK' /\ OutcomeInv'
    BY DEF TypeOK, OutcomeInv, Steps, Outcomes, ProcessOutcomes, CleaningUp
  <1>2. StagedInv'
    BY DEF TypeOK, OutcomeInv, StagedInv, Staged, Locking, CleaningUp
  <1>3. SecretInv'
    BY DEF TypeOK, OutcomeInv, SecretInv, CleaningUp
  <1>4. DumpInv' /\ ManifestInv'
    BY DEF TypeOK, OutcomeInv, DumpInv, ManifestInv, Owns, DumpSteps, ManifestSteps,
       CleaningUp
  <1> QED BY <1>1, <1>2, <1>3, <1>4

\* Only a failed reconciliation leaves a secret, and reports it.
LEMMA ReconcileInv ==
  ASSUME IInv, NEW o \in Operations, Reconcile(o)
  PROVE  IInv'
  <1> USE NoOneAssumption DEF IInv, Reconcile, HelperOutcome
  <1>1. TypeOK' /\ OutcomeInv'
    BY DEF TypeOK, OutcomeInv, Steps, Outcomes, ProcessOutcomes, CleaningUp
  <1>2. StagedInv'
    BY DEF TypeOK, OutcomeInv, StagedInv, Staged, Locking, CleaningUp
  <1>3. SecretInv'
    BY DEF TypeOK, OutcomeInv, SecretInv, CleaningUp
  <1>4. DumpInv' /\ ManifestInv'
    BY DEF TypeOK, OutcomeInv, DumpInv, ManifestInv, Owns, DumpSteps, ManifestSteps,
       CleaningUp
  <1> QED BY <1>1, <1>2, <1>3, <1>4

\* A sync changes no file.
LEMMA SyncStagedInv ==
  ASSUME IInv, NEW o \in Operations, SyncStaged(o)
  PROVE  IInv'
  <1> USE NoOneAssumption DEF IInv, SyncStaged
  <1>1. TypeOK' /\ OutcomeInv'
    BY DEF TypeOK, OutcomeInv, Steps, Outcomes, ProcessOutcomes, CleaningUp
  <1>2. StagedInv' /\ SecretInv'
    BY DEF TypeOK, OutcomeInv, StagedInv, Staged, Locking, SecretInv, CleaningUp
  <1>3. DumpInv' /\ ManifestInv'
    BY DEF TypeOK, OutcomeInv, DumpInv, ManifestInv, Owns, DumpSteps, ManifestSteps,
       CleaningUp
  <1> QED BY <1>1, <1>2, <1>3

\* Closing gives the lock up.
LEMMA CloseStagedInv ==
  ASSUME IInv, NEW o \in Operations, CloseStaged(o)
  PROVE  IInv'
  <1> USE NoOneAssumption DEF IInv, CloseStaged
  <1>1. TypeOK' /\ OutcomeInv'
    BY DEF TypeOK, OutcomeInv, Steps, Outcomes, ProcessOutcomes, CleaningUp
  <1>2. StagedInv'
    BY DEF TypeOK, OutcomeInv, StagedInv, Staged, Locking, CleaningUp
  <1>3. SecretInv'
    BY DEF TypeOK, OutcomeInv, SecretInv, CleaningUp
  <1>4. DumpInv' /\ ManifestInv'
    BY DEF TypeOK, OutcomeInv, DumpInv, ManifestInv, Owns, DumpSteps, ManifestSteps,
       CleaningUp
  <1> QED BY <1>1, <1>2, <1>3, <1>4

\* The validator changes no file of the destination.
LEMMA ValidateArchiveInv ==
  ASSUME IInv, NEW o \in Operations, ValidateArchive(o)
  PROVE  IInv'
  <1> USE NoOneAssumption DEF IInv, ValidateArchive
  <1>1. TypeOK' /\ OutcomeInv'
    BY DEF TypeOK, OutcomeInv, Steps, Outcomes, ProcessOutcomes, CleaningUp
  <1>2. StagedInv'
    BY DEF TypeOK, OutcomeInv, StagedInv, Staged, Locking, CleaningUp
  <1>3. SecretInv'
    BY DEF TypeOK, OutcomeInv, SecretInv, CleaningUp
  <1>4. DumpInv' /\ ManifestInv'
    BY DEF TypeOK, OutcomeInv, DumpInv, ManifestInv, Owns, DumpSteps, ManifestSteps,
       CleaningUp
  <1> QED BY <1>1, <1>2, <1>3, <1>4

\* A validator's container stays only behind a failed validation.
LEMMA ValidatorEndsInv ==
  ASSUME IInv, NEW o \in Operations, ValidatorEnds(o)
  PROVE  IInv'
  <1> USE NoOneAssumption DEF IInv, ValidatorEnds
  <1>1. TypeOK' /\ OutcomeInv'
    BY DEF TypeOK, OutcomeInv, Steps, Outcomes, ProcessOutcomes, CleaningUp
  <1>2. StagedInv'
    BY DEF TypeOK, OutcomeInv, StagedInv, Staged, Locking, CleaningUp
  <1>3. SecretInv'
    BY DEF TypeOK, OutcomeInv, SecretInv, CleaningUp
  <1>4. DumpInv' /\ ManifestInv'
    BY DEF TypeOK, OutcomeInv, DumpInv, ManifestInv, Owns, DumpSteps, ManifestSteps,
       CleaningUp
  <1> QED BY <1>1, <1>2, <1>3, <1>4

\* Hashing may give the staged dump up.
LEMMA HashDumpInv ==
  ASSUME IInv, NEW o \in Operations, HashDump(o)
  PROVE  IInv'
  <1> USE NoOneAssumption DEF IInv, HashDump
  <1>1. TypeOK' /\ OutcomeInv'
    BY DEF TypeOK, OutcomeInv, Steps, Outcomes, ProcessOutcomes, CleaningUp
  <1>2. StagedInv'
    BY DEF TypeOK, OutcomeInv, StagedInv, Staged, Locking, CleaningUp
  <1>3. SecretInv'
    BY DEF TypeOK, OutcomeInv, SecretInv, CleaningUp
  <1>4. DumpInv' /\ ManifestInv'
    BY DEF TypeOK, OutcomeInv, DumpInv, ManifestInv, Owns, DumpSteps, ManifestSteps,
       CleaningUp
  <1> QED BY <1>1, <1>2, <1>3, <1>4

\* The staged manifest is no part of what is published.
LEMMA WriteManifestInv ==
  ASSUME IInv, NEW o \in Operations, WriteManifest(o)
  PROVE  IInv'
  <1> USE NoOneAssumption DEF IInv, WriteManifest
  <1>1. TypeOK' /\ OutcomeInv'
    BY DEF TypeOK, OutcomeInv, Steps, Outcomes, ProcessOutcomes, CleaningUp
  <1>2. StagedInv'
    BY DEF TypeOK, OutcomeInv, StagedInv, Staged, Locking, CleaningUp
  <1>3. SecretInv'
    BY DEF TypeOK, OutcomeInv, SecretInv, CleaningUp
  <1>4. DumpInv' /\ ManifestInv'
    BY DEF TypeOK, OutcomeInv, DumpInv, ManifestInv, Owns, DumpSteps, ManifestSteps,
       CleaningUp
  <1> QED BY <1>1, <1>2, <1>3, <1>4

\* A dump is published only under a free name.
LEMMA RenameDumpInv ==
  ASSUME IInv, NEW o \in Operations, RenameDump(o)
  PROVE  IInv'
  <1> USE NoOneAssumption DEF IInv, RenameDump
  <1>1. TypeOK' /\ OutcomeInv'
    BY DEF TypeOK, OutcomeInv, Steps, Outcomes, ProcessOutcomes, CleaningUp
  <1>2. StagedInv'
    BY DEF TypeOK, OutcomeInv, StagedInv, Staged, Locking, CleaningUp
  <1>3. SecretInv'
    BY DEF TypeOK, OutcomeInv, SecretInv, CleaningUp
  <1>4. DumpInv'
    BY DEF TypeOK, OutcomeInv, DumpInv, Owns, DumpSteps, CleaningUp
  <1>5. ManifestInv'
    BY DEF TypeOK, OutcomeInv, ManifestInv, Owns, ManifestSteps, CleaningUp
  <1> QED BY <1>1, <1>2, <1>3, <1>4, <1>5

\* A manifest is published only under a free name; otherwise the dump, which is the
\* operation's own, is withdrawn.
LEMMA RenameManifestInv ==
  ASSUME IInv, NEW o \in Operations, RenameManifest(o)
  PROVE  IInv'
  <1> USE NoOneAssumption DEF IInv, RenameManifest
  <1>1. TypeOK' /\ OutcomeInv'
    BY DEF TypeOK, OutcomeInv, Steps, Outcomes, ProcessOutcomes, CleaningUp
  <1>2. StagedInv' /\ SecretInv'
    BY DEF TypeOK, OutcomeInv, StagedInv, Staged, Locking, SecretInv, CleaningUp
  <1>3. DumpInv'
    BY DEF TypeOK, OutcomeInv, DumpInv, Owns, DumpSteps, CleaningUp
  <1>4. ManifestInv'
    BY DEF TypeOK, OutcomeInv, ManifestInv, Owns, ManifestSteps, CleaningUp
  <1> QED BY <1>1, <1>2, <1>3, <1>4

\* A pair that cannot be synced loses its dump, which is the operation's own.
LEMMA SyncDirectoryInv ==
  ASSUME IInv, NEW o \in Operations, SyncDirectory(o)
  PROVE  IInv'
  <1> USE NoOneAssumption DEF IInv, SyncDirectory
  <1>1. TypeOK' /\ OutcomeInv'
    BY DEF TypeOK, OutcomeInv, Steps, Outcomes, ProcessOutcomes, CleaningUp
  <1>2. StagedInv' /\ SecretInv'
    BY DEF TypeOK, OutcomeInv, StagedInv, Staged, Locking, SecretInv, CleaningUp
  <1>3. DumpInv'
    BY DEF TypeOK, OutcomeInv, DumpInv, Owns, DumpSteps, CleaningUp
  <1>4. ManifestInv'
    BY DEF TypeOK, OutcomeInv, ManifestInv, Owns, ManifestSteps, CleaningUp
  <1> QED BY <1>1, <1>2, <1>3, <1>4

\* The manifest withdrawn is the operation's own.
LEMMA UnpublishManifestInv ==
  ASSUME IInv, NEW o \in Operations, UnpublishManifest(o)
  PROVE  IInv'
  <1> USE NoOneAssumption DEF IInv, UnpublishManifest
  <1>1. TypeOK' /\ OutcomeInv'
    BY DEF TypeOK, OutcomeInv, Steps, Outcomes, ProcessOutcomes, CleaningUp
  <1>2. StagedInv' /\ SecretInv'
    BY DEF TypeOK, OutcomeInv, StagedInv, Staged, Locking, SecretInv, CleaningUp
  <1>3. DumpInv'
    BY DEF TypeOK, OutcomeInv, DumpInv, Owns, DumpSteps, CleaningUp
  <1>4. ManifestInv'
    BY DEF TypeOK, OutcomeInv, ManifestInv, Owns, ManifestSteps, CleaningUp
  <1> QED BY <1>1, <1>2, <1>3, <1>4

\* The cleanup gives the lock up unless a close did.
LEMMA CleanupCloseInv ==
  ASSUME IInv, NEW o \in Operations, CleanupClose(o)
  PROVE  IInv'
  <1> USE NoOneAssumption DEF IInv, CleanupClose
  <1>1. TypeOK' /\ OutcomeInv'
    BY DEF TypeOK, OutcomeInv, Steps, Outcomes, ProcessOutcomes, CleaningUp
  <1>2. StagedInv'
    BY DEF TypeOK, OutcomeInv, StagedInv, Staged, Locking, CleaningUp
  <1>3. SecretInv'
    BY DEF TypeOK, OutcomeInv, SecretInv, CleaningUp
  <1>4. DumpInv' /\ ManifestInv'
    BY DEF TypeOK, OutcomeInv, DumpInv, ManifestInv, Owns, DumpSteps, ManifestSteps,
       CleaningUp
  <1> QED BY <1>1, <1>2, <1>3, <1>4

\* The cleanup leaves neither staged dump nor lock.
LEMMA CleanupRemoveInv ==
  ASSUME IInv, NEW o \in Operations, CleanupRemove(o)
  PROVE  IInv'
  <1> USE NoOneAssumption DEF IInv, CleanupRemove
  <1>1. TypeOK' /\ OutcomeInv'
    BY DEF TypeOK, OutcomeInv, Steps, Outcomes, ProcessOutcomes, CleaningUp
  <1>2. StagedInv'
    BY DEF TypeOK, OutcomeInv, StagedInv, Staged, Locking, CleaningUp
  <1>3. SecretInv'
    BY DEF TypeOK, OutcomeInv, SecretInv, CleaningUp
  <1>4. DumpInv' /\ ManifestInv'
    BY DEF TypeOK, OutcomeInv, DumpInv, ManifestInv, Owns, DumpSteps, ManifestSteps,
       CleaningUp
  <1> QED BY <1>1, <1>2, <1>3, <1>4

\* A cancellation changes no file.
LEMMA CancelInv ==
  ASSUME IInv, NEW o \in Operations, Cancel(o)
  PROVE  IInv'
  <1> USE NoOneAssumption DEF IInv, Cancel
  <1>1. TypeOK' /\ OutcomeInv'
    BY DEF TypeOK, OutcomeInv, Steps, Outcomes, ProcessOutcomes, CleaningUp
  <1>2. StagedInv' /\ SecretInv'
    BY DEF TypeOK, OutcomeInv, StagedInv, Staged, Locking, SecretInv, CleaningUp
  <1>3. DumpInv' /\ ManifestInv'
    BY DEF TypeOK, OutcomeInv, DumpInv, ManifestInv, Owns, DumpSteps, ManifestSteps,
       CleaningUp
  <1> QED BY <1>1, <1>2, <1>3

\* A crash leaves everything where it is.
LEMMA CrashInv ==
  ASSUME IInv, NEW o \in Operations, Crash(o)
  PROVE  IInv'
  <1> USE NoOneAssumption DEF IInv, Crash
  <1>1. TypeOK' /\ OutcomeInv'
    BY DEF TypeOK, OutcomeInv, Steps, Outcomes, ProcessOutcomes, CleaningUp
  <1>2. StagedInv'
    BY DEF TypeOK, OutcomeInv, StagedInv, Staged, Locking, CleaningUp
  <1>3. SecretInv'
    BY DEF TypeOK, OutcomeInv, SecretInv, CleaningUp
  <1>4. DumpInv'
    BY DEF TypeOK, OutcomeInv, DumpInv, Owns, DumpSteps, CleaningUp
  <1>5. ManifestInv'
    BY DEF TypeOK, OutcomeInv, ManifestInv, Owns, ManifestSteps, CleaningUp
  <1> QED BY <1>1, <1>2, <1>3, <1>4, <1>5

\* A container that ends by itself is one less.
LEMMA HelperExitsInv ==
  ASSUME IInv, NEW o \in Operations, HelperExits(o)
  PROVE  IInv'
  <1> USE NoOneAssumption DEF IInv, HelperExits
  <1>1. TypeOK' /\ OutcomeInv'
    BY DEF TypeOK, OutcomeInv, Steps, Outcomes, ProcessOutcomes, CleaningUp
  <1>2. StagedInv'
    BY DEF TypeOK, OutcomeInv, StagedInv, Staged, Locking, CleaningUp
  <1>3. SecretInv'
    BY DEF TypeOK, OutcomeInv, SecretInv, CleaningUp
  <1>4. DumpInv' /\ ManifestInv'
    BY DEF TypeOK, OutcomeInv, DumpInv, ManifestInv, Owns, DumpSteps, ManifestSteps,
       CleaningUp
  <1> QED BY <1>1, <1>2, <1>3, <1>4

\* Every step keeps the invariant.
LEMMA StepInv == IInv /\ [Next]_vars => IInv'
  <1> SUFFICES ASSUME IInv, [Next]_vars PROVE IInv' OBVIOUS
  <1>1. ASSUME NEW o \in Operations, Run(o) PROVE IInv'
    BY <1>1, PreconditionsInv, PrepareInv, StageDumpInv, PrepareCredentialInv,
       StartHelperInv, HelperEndsInv, ReconcileInv, SyncStagedInv, CloseStagedInv,
       ValidateArchiveInv, ValidatorEndsInv, HashDumpInv, WriteManifestInv, RenameDumpInv,
       RenameManifestInv, SyncDirectoryInv, UnpublishManifestInv, CleanupCloseInv,
       CleanupRemoveInv DEF Run
  <1>2. CASE UNCHANGED vars
    BY <1>2 DEF vars, IInv, TypeOK, OutcomeInv, StagedInv, SecretInv, DumpInv, ManifestInv,
       Owns
  <1> QED BY <1>1, <1>2, CancelInv, CrashInv, HelperExitsInv DEF Next

\* IInv holds in every reachable state, whatever the number of operations.
THEOREM Invariance == Spec => []IInv
  <1>1. Init => IInv
    BY NoOneAssumption DEF Init, IInv, TypeOK, OutcomeInv, StagedInv, SecretInv, DumpInv,
       ManifestInv, Owns, Steps, Outcomes, ProcessOutcomes, CleaningUp, DumpSteps,
       ManifestSteps
  <1> QED BY <1>1, StepInv, PTL DEF Spec

\* The types of the operations, the directory and the secrets.
THEOREM TypeCorrect == Spec => []TypeOK
  <1>1. IInv => TypeOK BY DEF IInv
  <1> QED BY <1>1, Invariance, PTL

\* A validated operation owns its published pair for good (RunWithProgress reports
\* BackupValidated only for what PublishBackupPair left in place).
THEOREM ValidatedIsPaired == Spec => []ValidatedMeansPaired
  <1>1. IInv => ValidatedMeansPaired
    BY DEF IInv, DumpInv, ManifestInv, Owns, ValidatedMeansPaired
  <1> QED BY <1>1, Invariance, PTL

\* What a failed operation created is gone from the destination when it returns (the
\* deferred functions of PublishBackupPair and of RunWithProgress).
THEOREM FailureIsUnpublished == Spec => []FailureLeavesNothingPublished
  <1>1. IInv => FailureLeavesNothingPublished
    BY NoOneAssumption DEF IInv, StagedInv, DumpInv, ManifestInv, Owns, DumpSteps,
       ManifestSteps, Staged, CleaningUp, Done, FailureLeavesNothingPublished
  <1> QED BY <1>1, Invariance, PTL

\* Containers, password files and lock do not outlive the operations untold (the
\* reconciliations of RunHelper and of the validator, and the places that remove the lock).
THEOREM NothingIsLeft == Spec => []NothingLeftBehind
  <1>1. IInv => NothingLeftBehind
    BY NoOneAssumption DEF IInv, TypeOK, StagedInv, SecretInv, Locking, CleaningUp, Done,
       NothingLeftBehind
  <1> QED BY <1>1, Invariance, PTL

\* No step replaces a published file or withdraws one of an operation that has returned
\* (renameNoReplace, and the owner's removals).
THEOREM NeverReplacedHolds == Spec => NeverReplaced
  <1> DEFINE Kept(published, next) ==
               published # NoOne /\ next # published => next = NoOne /\ ~Done(published)
  <1>1. ASSUME IInv, Next, NEW x \in Sums
        PROVE  Kept(dump[x], dump'[x]) /\ Kept(manifest[x], manifest'[x])
    <2>1. PICK o \in Operations : Run(o) \/ Cancel(o) \/ Crash(o) \/ HelperExits(o)
      BY <1>1 DEF Next
    <2>2. CASE RenameDump(o)
      BY <1>1, <2>2 DEF RenameDump, IInv, TypeOK
    <2>3. CASE RenameManifest(o)
      BY <1>1, <2>3 DEF RenameManifest, IInv, TypeOK, DumpInv, Owns, DumpSteps, Done
    <2>4. CASE SyncDirectory(o)
      BY <1>1, <2>4 DEF SyncDirectory, IInv, TypeOK, DumpInv, Owns, DumpSteps, Done
    <2>5. CASE UnpublishManifest(o)
      BY <1>1, <2>5 DEF UnpublishManifest, IInv, TypeOK, ManifestInv, Owns, ManifestSteps, Done
    <2>6. CASE UNCHANGED <<dump, manifest>>
      BY <2>6
    <2>7. \/ RenameDump(o) \/ RenameManifest(o) \/ SyncDirectory(o) \/ UnpublishManifest(o)
          \/ UNCHANGED <<dump, manifest>>
      BY <2>1 DEF Run, Preconditions, Prepare, StageDump, PrepareCredential, StartHelper,
         HelperEnds, Reconcile, SyncStaged, CloseStaged, ValidateArchive, ValidatorEnds, HashDump,
         WriteManifest, CleanupClose, CleanupRemove, Cancel, Crash, HelperExits
    <2> QED BY <2>2, <2>3, <2>4, <2>5, <2>6, <2>7
  <1>2. IInv /\ [Next]_vars =>
           [\A x \in Sums : /\ dump[x] # NoOne /\ dump'[x] # dump[x] =>
                                 dump'[x] = NoOne /\ ~Done(dump[x])
                            /\ manifest[x] # NoOne /\ manifest'[x] # manifest[x] =>
                                 manifest'[x] = NoOne /\ ~Done(manifest[x])]_vars
    BY <1>1
  <1> QED BY <1>2, Invariance, PTL DEF Spec, NeverReplaced

-----------------------------------------------------------------------------
(* The discovery of the legacy container.                                   *)

\* What is listed is still to be inspected or has been; the types the steps rely on.
ListInv ==
    /\ docker \in [Containers -> ContainerStates]
    /\ DOMAIN details \subseteq Containers /\ stale \subseteq DOMAIN details
    /\ candidates \subseteq Containers \ DOMAIN details
    /\ failed \in BOOLEAN /\ faults \in BOOLEAN /\ disturbances \in Nat
    /\ phase \in {"resolve", "list"} => candidates = {} /\ DOMAIN details = {} /\ ~failed
    /\ disturbances = 0 => stale = {}

\* An inspection is of a container there was, and it holds until a container changes.
SeenInv ==
    \A c \in DOMAIN details \ stale : details[c] = Shown(c) /\ Exists(c)

\* The plan is the container that was selected, until the dump nothing is dumped.
PlanInv ==
    /\ phase = "confirm" => plan \in Matches
    /\ phase # "done" => dumped = 0

\* Where nothing fails and nothing changes, every container of the image is in the list, and
\* an inspection fails for what docker says.
CompleteInv ==
    disturbances = 0 /\ ~faults /\ phase = "inspect" =>
        /\ candidates \subseteq Exact
        /\ failed => \E c \in Exact : Malformed(c)
        /\ ~failed => Exact = candidates \union DOMAIN details

\* The inductive invariant of the discovery.
DiscoveryInv ==
    /\ ListInv /\ DockerConsistent /\ SeenInv /\ PlanInv /\ CompleteInv
    /\ DumpsWhatItSelected /\ RefusalIsTrue

\* A binding that listens at an address of the host is one the selection takes.
LEMMA ListeningIsReachable ==
  ASSUME NEW b, NEW host, NEW address \in Addresses(host) \intersect Loopback, Listens(b, address)
  PROVE  BindingReachable(b, host)
  <1>1. "localhost" \notin Loopback
    BY AddressAssumption DEF Loopback
  <1>2. b.ip \in Loopback \union Unspecified /\ Family(b.ip) = Family(address)
    BY DEF Listens
  <1>3. Family(address) \in Families(host)
    <2>1. CASE host = "localhost"
      BY <1>1, <2>1 DEF Families, Family
    <2>2. CASE host # "localhost"
      <3>1. address = host /\ host \in Loopback
        BY <2>2 DEF Addresses
      <3> QED
        BY <2>2, <3>1 DEF Families
    <2> QED
      BY <2>1, <2>2
  <1> QED
    BY <1>2, <1>3 DEF BindingReachable

\* A binding the selection takes listens at an address of the host, unless it is bound at
\* another loopback address.
LEMMA ReachableListens ==
  ASSUME NEW b, NEW host, BindingReachable(b, host), b.ip \notin Loopback \ {host}
  PROVE  /\ \E address \in Addresses(host) \intersect Loopback : Listens(b, address)
         /\ host # "localhost" => host \in Loopback /\ Listens(b, host)
  <1>1. /\ "localhost" \notin Loopback /\ "127.0.0.1" \in Loopback /\ "::1" \in Loopback
        /\ "127.0.0.1" \notin {"::1", "::"} /\ "0.0.0.0" \notin Loopback /\ "::" \notin Loopback
    BY AddressAssumption DEF Loopback
  <1>2. b.ip \in Loopback \union Unspecified /\ Family(b.ip) \in Families(host)
    BY DEF BindingReachable
  <1>3. b.ip = host \/ b.ip \in Unspecified
    BY <1>2
  <1>4. CASE host = "localhost"
    <2>1. b.ip \in Unspecified
      BY <1>1, <1>2, <1>3, <1>4
    <2>2. CASE b.ip = "0.0.0.0"
      <3>1. Listens(b, "127.0.0.1")
        BY <1>1, <2>1, <2>2 DEF Listens, Family
      <3> QED
        BY <1>1, <1>4, <3>1 DEF Addresses
    <2>3. CASE b.ip = "::"
      <3>1. Listens(b, "::1")
        BY <1>1, <2>1, <2>3 DEF Listens, Family
      <3> QED
        BY <1>1, <1>4, <3>1 DEF Addresses
    <2> QED
      BY <1>4, <2>1, <2>2, <2>3 DEF Unspecified
  <1>5. CASE host # "localhost"
    <2>1. host \in Loopback /\ Family(b.ip) = Family(host)
      BY <1>2, <1>5 DEF Families
    <2>2. Listens(b, host)
      BY <1>3, <2>1 DEF Listens
    <2> QED
      BY <1>5, <2>1, <2>2 DEF Addresses
  <1> QED
    BY <1>4, <1>5

\* What docker shows of a container is what it has, the ports of one that stands excepted.
LEMMA ShownIsKept ==
  ASSUME NEW c \in Containers, docker \in [Containers -> ContainerStates]
  PROVE  /\ Shown(c).name = docker[c].name /\ Shown(c).database = docker[c].database
         /\ Shown(c).username = docker[c].username /\ Shown(c).labels = docker[c].labels
         /\ Shown(c).mount = docker[c].mount /\ Shown(c).state = docker[c].state
         /\ Shown(c).health = docker[c].health /\ Shown(c).aliases = docker[c].aliases
         /\ Shown(c).ports = IF Running(c) THEN docker[c].ports ELSE {}
  <1>1. docker[c] \in ContainerStates
    OBVIOUS
  <1> QED
    BY <1>1 DEF Shown, ContainerStates

\* What each verdict on a container says of it.
LEMMA Verdicts ==
  ASSUME NEW c \in Containers, docker \in [Containers -> ContainerStates]
  PROVE  LET verdict == Correlate(Shown(c)) IN
         /\ verdict \in {"identity", "unsafe", "endpoint", "stopped", "match"}
         /\ verdict = "identity" => ~RightDatabase(c)
         /\ verdict = "unsafe" =>
              /\ RightDatabase(c)
              /\ \/ ~Provenance(c) \/ docker[c].health \in {"unhealthy", "starting"}
                 \/ config.value.host \in docker[c].aliases /\ config.value.port # 5432
         /\ verdict = "endpoint" => RightDatabase(c) /\ (~Reachable(c) \/ ~Running(c))
         /\ verdict = "stopped" => RightDatabase(c) /\ ~Running(c) /\ Reachable(c)
         /\ verdict = "match" =>
              /\ docker[c].state # "stopped"
              /\ LocalMatch(docker[c]) \/ PublishedEndpoint(docker[c])
  <1> DEFINE d == Shown(c)
             verdict == Correlate(d)
             wrong == d.database # config.value.database \/ d.username # config.value.username
             elsewhere == ~LocalMatch(d) /\ ~PublishedEndpoint(d)
  <1>1. /\ verdict \in {"identity", "unsafe", "endpoint", "stopped", "match"}
        /\ verdict = "identity" => wrong \/ d.labels = "foreign"
        /\ verdict # "identity" => ~wrong /\ d.labels # "foreign"
        /\ verdict = "unsafe" => \/ ~d.mount /\ d.labels # "master"
                                 \/ LocalConflict(d)
                                 \/ d.health \in {"unhealthy", "starting"}
        /\ verdict = "endpoint" => elsewhere
        /\ verdict = "stopped" => ~elsewhere /\ d.state = "stopped"
        /\ verdict = "match" => ~elsewhere /\ d.state # "stopped"
    BY DEF Correlate
  <1>2. verdict = "identity" => ~RightDatabase(c)
    BY <1>1, ShownIsKept DEF RightDatabase
  <1>3. verdict # "identity" => RightDatabase(c)
    BY <1>1, ShownIsKept DEF RightDatabase
  <1>4. verdict = "unsafe" =>
            \/ ~Provenance(c) \/ docker[c].health \in {"unhealthy", "starting"}
            \/ config.value.host \in docker[c].aliases /\ config.value.port # 5432
    BY <1>1, ShownIsKept DEF Provenance, LocalConflict
  <1>5. elsewhere => ~Reachable(c) \/ ~Running(c)
    <2>1. SUFFICES ASSUME Reachable(c), Running(c) PROVE LocalMatch(d) \/ PublishedEndpoint(d)
      OBVIOUS
    <2>2. CASE config.value.host \in docker[c].aliases /\ config.value.port = 5432
      BY <2>2, ShownIsKept DEF LocalMatch
    <2>3. CASE Bound(c, config.value.host, config.value.port)
      <3>1. PICK b \in docker[c].ports, address \in Addresses(config.value.host) \intersect Loopback :
                b.hostPort = config.value.port /\ b.containerPort = 5432 /\ Listens(b, address)
        BY <2>3 DEF Bound
      <3>2. BindingReachable(b, config.value.host)
        BY <3>1, ListeningIsReachable
      <3>3. d.ports = docker[c].ports
        BY <2>1, ShownIsKept
      <3> QED
        BY <3>1, <3>2, <3>3 DEF PublishedEndpoint
    <2> QED
      BY <2>1, <2>2, <2>3 DEF Reachable
  <1>6. ~elsewhere =>
            \/ LocalMatch(docker[c])
            \/ Running(c) /\ PublishedEndpoint(docker[c])
    BY ShownIsKept DEF LocalMatch, PublishedEndpoint
  <1>7. d.state = "stopped" <=> docker[c].state = "stopped"
    BY ShownIsKept
  <1>8. docker[c].state = "stopped" => ~Running(c)
    BY DEF Running
  <1>9. LocalMatch(docker[c]) => Reachable(c)
    BY DEF LocalMatch, Reachable
  <1> HIDE DEF d, verdict, elsewhere, wrong
  <1> QED
    BY <1>1, <1>2, <1>3, <1>4, <1>5, <1>6, <1>7, <1>8, <1>9 DEF verdict, d

\* The selected container is the only one that the configured address reaches.
LEMMA SelectedIsReached ==
  ASSUME ListInv, DockerConsistent, SeenInv, plan \in Matches, plan \notin stale,
         NEW c \in Reached(config.value.host, config.value.port),
         config.value.host # "localhost", ~Loosely(plan)
  PROVE  c = plan
  <1> DEFINE host == config.value.host
             port == config.value.port
  <1>1. /\ plan \in Containers /\ docker[plan] \in ContainerStates /\ Exists(plan)
        /\ Correlate(Shown(plan)) = "match"
    BY DEF ListInv, SeenInv, Matches, Masters
  <1>2. Running(plan) /\ (LocalMatch(docker[plan]) \/ PublishedEndpoint(docker[plan]))
    <2>1. docker[plan].state \in {"running", "stopped", "removed"}
      BY <1>1 DEF ContainerStates
    <2>2. docker[plan].state # "stopped"
          /\ (LocalMatch(docker[plan]) \/ PublishedEndpoint(docker[plan]))
      BY <1>1, Verdicts DEF ListInv
    <2> QED
      BY <1>1, <2>1, <2>2 DEF Running, Exists
  <1>3. PICK b \in docker[c].ports, address \in Addresses(host) \intersect Loopback :
            b.hostPort = port /\ Listens(b, address)
    BY DEF Reached, Bound
  <1>4. c \in Containers /\ Running(c) /\ address = host /\ host \in Loopback
    BY <1>3 DEF Reached, Addresses
  <1>5. ~LocalMatch(docker[plan])
    <2>1. docker[plan].aliases \subseteq STRING \ Loopback
      BY <1>1 DEF ContainerStates
    <2> QED
      BY <1>4, <2>1 DEF LocalMatch
  <1>6. PICK own \in docker[plan].ports : own.hostPort = port /\ BindingReachable(own, host)
    BY <1>2, <1>5 DEF PublishedEndpoint
  <1>7. Listens(own, host)
    <2>1. own.ip \notin Loopback \ {host}
      BY DEF Loosely
    <2> QED
      BY <1>6, <2>1, ReachableListens
  <1>8. ~Compatible(plan, c)
    BY <1>3, <1>4, <1>6, <1>7 DEF Compatible
  <1>9. Exists(c)
    BY <1>4 DEF Running, Exists
  <1> QED
    BY <1>1, <1>2, <1>4, <1>8, <1>9 DEF DockerConsistent

\* With every container inspected, the reason of a refusal is a true one.
LEMMA DecisionIsTrue ==
  ASSUME DiscoveryInv, Decide, disturbances = 0, ~faults, config.ok
  PROVE  RefusalIsTrue'
  <1> DEFINE masters == {c \in Exact : docker[c].name = "master"}
  <1>1. /\ UNCHANGED <<docker, config, disturbances, faults>> /\ phase = "inspect"
        /\ candidates = {}
    BY DEF Decide
  <1>2. CASE failed
    <2>1. decision' = "precondition" /\ \E c \in Exact : Malformed(c)
      BY <1>1, <1>2 DEF Decide, Ends, DiscoveryInv, CompleteInv
    <2>2. Exact' = Exact
      BY <1>1 DEF Exact, Exists
    <2>3. ASSUME NEW c \in Exact PROVE Malformed(c)' <=> Malformed(c)
      BY <1>1 DEF Malformed, Shown, Running
    <2> QED
      BY <2>1, <2>2, <2>3 DEF RefusalIsTrue
  <1>3. CASE ~failed
    <2>1. DOMAIN details = Exact /\ stale = {}
      BY <1>1, <1>3 DEF DiscoveryInv, CompleteInv, ListInv
    <2>2. \A c \in Exact : details[c] = Shown(c)
      BY <2>1 DEF DiscoveryInv, SeenInv
    <2>3. Masters = masters
      <3>1. \A c \in Exact : c \in Containers /\ docker \in [Containers -> ContainerStates]
        BY DEF Exact, DiscoveryInv, ListInv
      <3> QED
        BY <2>1, <2>2, <3>1, ShownIsKept DEF Masters
    <2>4. \A c \in masters : c \in Containers /\ Exists(c) /\ details[c] = Shown(c)
      BY <2>2 DEF Exact
    <2>5. \A c, d \in masters : c = d
      BY <2>4 DEF DiscoveryInv, DockerConsistent
    <2>6. docker \in [Containers -> ContainerStates]
      BY DEF DiscoveryInv, ListInv
    <2> HIDE DEF masters
    <2>7. CASE Matches = {}
      <3>1. decision' = Reason
        BY <1>3, <2>7 DEF Decide, Ends
      <3>2. \A c \in masters : Correlate(Shown(c)) \in {"identity", "unsafe", "endpoint", "stopped"}
        BY <2>3, <2>4, <2>6, <2>7, Verdicts DEF Matches
      <3>3. Reasons = {Correlate(Shown(c)) : c \in masters}
        BY <2>3, <2>4 DEF Reasons
      <3>4. Reason = "identity" => \E c \in masters : ~RightDatabase(c)
        BY <2>4, <2>6, <3>3, Verdicts DEF Reason
      <3>5. Reason = "unsafe" => \E c \in masters :
                /\ RightDatabase(c)
                /\ \/ ~Provenance(c) \/ docker[c].health \in {"unhealthy", "starting"}
                   \/ config.value.host \in docker[c].aliases /\ config.value.port # 5432
        <4>1. SUFFICES ASSUME Reason = "unsafe"
                       PROVE  \E c \in masters : Correlate(Shown(c)) = "unsafe"
          BY <2>4, <2>6, Verdicts
        <4> QED
          BY <3>3, <4>1 DEF Reason
      <3>6. Reason = "endpoint" => \E c \in masters :
                RightDatabase(c) /\ (~Reachable(c) \/ ~Running(c))
        BY <2>4, <2>6, <3>3, Verdicts DEF Reason
      <3>7. Reason = "stopped" => \E c \in masters :
                RightDatabase(c) /\ ~Running(c) /\ Reachable(c)
        BY <2>4, <2>6, <3>3, Verdicts DEF Reason
      <3>8. Reason = "precondition" => masters = {}
        BY <3>2, <3>3 DEF Reason
      <3>9. Reason \in {"identity", "unsafe", "endpoint", "stopped", "precondition"}
        BY DEF Reason
      <3>10. /\ masters' = masters /\ Exact' = Exact
             /\ \A c \in masters : /\ RightDatabase(c)' <=> RightDatabase(c)
                                   /\ Reachable(c)' <=> Reachable(c)
                                   /\ Running(c)' <=> Running(c)
                                   /\ Provenance(c)' <=> Provenance(c)
        BY <1>1 DEF masters, Exact, Exists, RightDatabase, Reachable, Bound, Running, Provenance
      <3>11. masters' = {c \in Exact' : docker'[c].name = "master"}
        BY DEF masters
      <3> QED
        BY <1>1, <3>1, <3>4, <3>5, <3>6, <3>7, <3>8, <3>9, <3>10, <3>11 DEF RefusalIsTrue
    <2>8. CASE Matches # {}
      <3>1. ~\E c, d \in Matches : c # d
        BY <2>3, <2>5 DEF Matches
      <3>2. decision' = "planned"
        BY <1>3, <2>8, <3>1 DEF Decide
      <3> QED
        BY <3>2 DEF RefusalIsTrue
    <2> QED
      BY <2>7, <2>8
  <1> QED
    BY <1>2, <1>3

\* What is asked of docker and of the plan stays where docker and the details stay.
LEMMA DockerKept ==
  ASSUME UNCHANGED docker
  PROVE  /\ DockerConsistent' <=> DockerConsistent
         /\ Exact' = Exact
         /\ \A c \in Exact : Malformed(c)' <=> Malformed(c)
         /\ \A c : (Exists(c)' <=> Exists(c)) /\ Shown(c)' = Shown(c)
  <1>1. \A c : (Exists(c)' <=> Exists(c)) /\ Shown(c)' = Shown(c)
    BY DEF Exists, Shown, Running
  <1>2. Exact' = Exact
    BY DEF Exact, Exists
  <1>3. \A c \in Exact : Malformed(c)' <=> Malformed(c)
    BY DEF Malformed, Shown, Running
  <1>4. \A c, d \in Containers : Compatible(c, d)' <=> Compatible(c, d)
    BY DEF Compatible
  <1>5. \A c : Running(c)' <=> Running(c)
    BY DEF Running
  <1>6. DockerConsistent' <=> DockerConsistent
    BY <1>1, <1>4, <1>5 DEF DockerConsistent
  <1> QED
    BY <1>1, <1>2, <1>3, <1>6

\* The configuration is resolved before anything is asked of docker.
LEMMA ResolveInv ==
  ASSUME DiscoveryInv, NEW resolved \in Resolved, ResolvesTo(resolved)
  PROVE  DiscoveryInv'
  <1> USE DEF DiscoveryInv, ResolvesTo, Ends
  <1>1. UNCHANGED <<docker, candidates, details, failed, plan, dumped, disturbances, stale>>
        /\ phase = "resolve" /\ dumped = 0 /\ faults' \in BOOLEAN
    BY DEF PlanInv, ListInv
  <1>2. \/ phase' = "list"
        \/ phase' = "done" /\ (faults' \/ ~config'.ok)
    BY DEF ListInv
  <1>3. ListInv'
    BY <1>1, <1>2 DEF ListInv
  <1>4. DockerConsistent'
    BY <1>1, DockerKept
  <1>5. SeenInv'
    BY <1>1 DEF SeenInv, ListInv
  <1>6. PlanInv' /\ CompleteInv' /\ DumpsWhatItSelected'
    BY <1>1, <1>2 DEF PlanInv, CompleteInv, DumpsWhatItSelected
  <1>7. RefusalIsTrue'
    BY <1>2 DEF RefusalIsTrue
  <1> QED
    BY <1>3, <1>4, <1>5, <1>6, <1>7

\* The list holds every container of the image.
LEMMA ListCandidatesInv ==
  ASSUME DiscoveryInv, ListCandidates
  PROVE  DiscoveryInv'
  <1> USE DEF DiscoveryInv, ListCandidates, Ends
  <1>1. /\ UNCHANGED <<docker, config, details, failed, plan, dumped, disturbances, stale>>
        /\ phase = "list" /\ dumped = 0 /\ DOMAIN details = {} /\ ~failed
    BY DEF PlanInv, ListInv
  <1>2. \/ candidates' = Exact /\ UNCHANGED faults /\ phase' = "inspect"
        \/ /\ candidates' = Exact /\ UNCHANGED faults /\ phase' = "done"
           /\ decision' = "noImage" /\ Exact = {}
        \/ UNCHANGED candidates /\ faults' = TRUE /\ phase' = "done"
    OBVIOUS
  <1>3. Exact \subseteq Containers
    BY DEF Exact
  <1>4. ListInv'
    BY <1>1, <1>2, <1>3 DEF ListInv
  <1>5. DockerConsistent' /\ Exact' = Exact
    BY <1>1, DockerKept
  <1>6. SeenInv'
    BY <1>1 DEF SeenInv
  <1>7. PlanInv' /\ DumpsWhatItSelected'
    BY <1>1, <1>2 DEF PlanInv, DumpsWhatItSelected
  <1>8. CompleteInv'
    BY <1>1, <1>2, <1>5 DEF CompleteInv
  <1>9. RefusalIsTrue'
    BY <1>2, <1>5 DEF RefusalIsTrue
  <1> QED
    BY <1>4, <1>5, <1>6, <1>7, <1>8, <1>9

\* An inspection says what docker has, and fails for a reason.
LEMMA InspectInv ==
  ASSUME DiscoveryInv, Inspect
  PROVE  DiscoveryInv'
  <1>1. /\ UNCHANGED <<docker, config, plan, dumped, disturbances, stale>> /\ phase = "inspect"
        /\ dumped = 0
    BY DEF DiscoveryInv, Inspect, PlanInv
  <1>2. PICK c \in candidates :
            /\ candidates' = candidates \ {c}
            /\ \/ /\ Exists(c) /\ ~Malformed(c)
                  /\ details' = [d \in DOMAIN details \union {c} |->
                                    IF d = c THEN Shown(c) ELSE details[d]]
                  /\ UNCHANGED <<phase, failed, faults>>
               \/ /\ ~Exists(c) \/ Malformed(c)
                  /\ failed' = TRUE /\ UNCHANGED <<phase, details, faults>>
               \/ failed' = TRUE /\ faults' = TRUE /\ UNCHANGED <<phase, details>>
               \/ phase' = "done" /\ faults' = TRUE /\ UNCHANGED <<failed, details>>
    BY DEF Inspect, Ends
  <1>3. ListInv /\ SeenInv /\ CompleteInv /\ DockerConsistent
    BY DEF DiscoveryInv
  <1>4. c \in Containers \ DOMAIN details
    BY <1>3 DEF ListInv
  <1>5. /\ DOMAIN details' \in {DOMAIN details, DOMAIN details \union {c}}
        /\ \A d \in DOMAIN details : details'[d] = details[d]
        /\ c \in DOMAIN details' => details'[c] = Shown(c) /\ Exists(c)
        /\ failed' \in BOOLEAN /\ faults' \in BOOLEAN /\ phase' \in {"inspect", "done"}
    BY <1>1, <1>2, <1>3, <1>4 DEF ListInv
  <1>6. ListInv'
    BY <1>1, <1>2, <1>3, <1>4, <1>5 DEF ListInv
  <1>7. /\ DockerConsistent' /\ Exact' = Exact /\ \A d : (Exists(d)' <=> Exists(d)) /\ Shown(d)' = Shown(d)
        /\ \A d \in Exact : Malformed(d)' <=> Malformed(d)
    BY <1>1, <1>3, DockerKept
  <1>8. SeenInv'
    BY <1>1, <1>3, <1>5, <1>7 DEF SeenInv
  <1>9. PlanInv' /\ DumpsWhatItSelected'
    BY <1>1, <1>5 DEF PlanInv, DumpsWhatItSelected
  <1>10. CompleteInv'
    <2>1. SUFFICES ASSUME disturbances = 0, ~faults', phase' = "inspect"
                   PROVE  /\ candidates' \subseteq Exact
                          /\ failed' => \E d \in Exact : Malformed(d)
                          /\ ~failed' => Exact = candidates' \union DOMAIN details'
      BY <1>1, <1>7 DEF CompleteInv
    <2>2. UNCHANGED faults
      BY <1>2, <2>1
    <2>3. /\ candidates \subseteq Exact
          /\ failed => \E d \in Exact : Malformed(d)
          /\ ~failed => Exact = candidates \union DOMAIN details
      BY <1>1, <1>3, <2>1, <2>2 DEF CompleteInv
    <2>4. c \in Exact /\ Exists(c)
      BY <2>3 DEF Exact
    <2>5. CASE /\ details' = [d \in DOMAIN details \union {c} |->
                                 IF d = c THEN Shown(c) ELSE details[d]]
               /\ UNCHANGED failed
      <3>1. DOMAIN details' = DOMAIN details \union {c}
        BY <2>5
      <3> QED
        BY <1>2, <2>3, <2>5, <3>1
    <2>6. CASE Malformed(c) /\ failed' = TRUE
      BY <1>2, <2>3, <2>4, <2>6
    <2> QED
      BY <1>2, <2>1, <2>4, <2>5, <2>6
  <1>11. RefusalIsTrue'
    <2>1. phase' = "done" => faults'
      BY <1>1, <1>2
    <2> QED
      BY <1>5, <2>1 DEF RefusalIsTrue
  <1> QED
    BY <1>6, <1>7, <1>8, <1>9, <1>10, <1>11 DEF DiscoveryInv

\* The selection touches nothing, and says why it refuses.
LEMMA DecideInv ==
  ASSUME DiscoveryInv, Decide
  PROVE  DiscoveryInv'
  <1>1. /\ UNCHANGED <<docker, config, candidates, details, failed, dumped, disturbances, stale,
                       faults>>
        /\ phase = "inspect" /\ dumped = 0
    BY DEF DiscoveryInv, Decide, PlanInv
  <1>2. \/ phase' = "done"
        \/ phase' = "confirm" /\ plan' \in Matches
    BY DEF Decide, Ends
  <1>3. ListInv'
    BY <1>1, <1>2 DEF DiscoveryInv, ListInv
  <1>4. DockerConsistent' /\ \A c : (Exists(c)' <=> Exists(c)) /\ Shown(c)' = Shown(c)
    BY <1>1, DockerKept DEF DiscoveryInv
  <1>5. SeenInv'
    BY <1>1, <1>4 DEF DiscoveryInv, SeenInv
  <1>6. PlanInv'
    <2>1. Matches' = Matches
      BY <1>1 DEF Matches, Masters, Correlate, LocalMatch, LocalConflict, PublishedEndpoint
    <2> QED
      BY <1>1, <1>2, <2>1 DEF PlanInv
  <1>7. CompleteInv' /\ DumpsWhatItSelected'
    BY <1>1, <1>2 DEF CompleteInv, DumpsWhatItSelected
  <1>8. RefusalIsTrue'
    <2>1. CASE disturbances = 0 /\ ~faults /\ config.ok
      BY <2>1, DecisionIsTrue
    <2>2. CASE ~(disturbances = 0 /\ ~faults /\ config.ok)
      BY <1>1, <2>2 DEF RefusalIsTrue
    <2> QED
      BY <2>1, <2>2
  <1> QED
    BY <1>3, <1>4, <1>5, <1>6, <1>7, <1>8 DEF DiscoveryInv

\* A refusal stays as true as it was.
LEMMA RefusalKept ==
  ASSUME RefusalIsTrue, UNCHANGED <<docker, config, decision, disturbances, faults>>,
         phase \in {"confirm", "done"}
  PROVE  RefusalIsTrue'
  <1>1. SUFFICES ASSUME disturbances = 0, ~faults, config.ok PROVE RefusalIsTrue'
    BY DEF RefusalIsTrue
  <1> DEFINE masters == {c \in Exact : docker[c].name = "master"}
  <1>2. /\ Exact' = Exact /\ \A c \in Exact : Malformed(c)' <=> Malformed(c)
    BY DockerKept
  <1>3. masters' = masters /\ masters \subseteq Exact
    BY <1>2
  <1>4. \A c \in masters : /\ RightDatabase(c)' <=> RightDatabase(c)
                           /\ Reachable(c)' <=> Reachable(c)
                           /\ Running(c)' <=> Running(c)
                           /\ Provenance(c)' <=> Provenance(c)
    BY DEF RightDatabase, Reachable, Bound, Running, Provenance
  <1>5. masters' = {c \in Exact' : docker'[c].name = "master"}
    OBVIOUS
  <1> HIDE DEF masters
  <1> QED
    BY <1>1, <1>2, <1>3, <1>4, <1>5 DEF RefusalIsTrue, masters

\* The configured address leads to the selected container.
LEMMA DumpContainerInv ==
  ASSUME DiscoveryInv, Dump
  PROVE  DiscoveryInv'
  <1>1. /\ UNCHANGED <<docker, config, candidates, details, failed, decision, plan, disturbances,
                       stale, faults>>
        /\ phase = "confirm" /\ phase' = "done" /\ plan \in Matches /\ dumped = 0
    BY DEF DiscoveryInv, Dump, PlanInv
  <1>2. ListInv'
    BY <1>1 DEF DiscoveryInv, ListInv
  <1>3. DockerConsistent' /\ \A c : (Exists(c)' <=> Exists(c)) /\ Shown(c)' = Shown(c)
    BY <1>1, DockerKept DEF DiscoveryInv
  <1>4. SeenInv'
    BY <1>1, <1>3 DEF DiscoveryInv, SeenInv
  <1>5. PlanInv' /\ CompleteInv'
    BY <1>1 DEF PlanInv, CompleteInv
  <1>6. DumpsWhatItSelected'
    <2>1. SUFFICES ASSUME dumped' # 0, plan \notin stale, config.value.host # "localhost",
                          ~Loosely(plan)
                   PROVE  dumped' = plan
      BY <1>1 DEF DumpsWhatItSelected, Loosely
    <2>2. dumped' \in Reached(config.value.host, config.value.port)
      BY <1>1, <2>1 DEF Dump
    <2> QED
      BY <1>1, <2>1, <2>2, SelectedIsReached DEF DiscoveryInv
  <1>7. RefusalIsTrue'
    BY <1>1, RefusalKept DEF DiscoveryInv
  <1> QED
    BY <1>2, <1>3, <1>4, <1>5, <1>6, <1>7 DEF DiscoveryInv

\* A change makes stale what has been inspected.
LEMMA DisturbInv ==
  ASSUME DiscoveryInv, Disturb
  PROVE  DiscoveryInv'
  <1>1. /\ UNCHANGED <<phase, config, candidates, details, failed, decision, plan, dumped, faults>>
        /\ disturbances' = disturbances + 1 /\ stale' = DOMAIN details /\ DockerConsistent'
        /\ phase # "done" /\ dumped = 0
    BY DEF DiscoveryInv, Disturb, PlanInv
  <1>2. docker' \in [Containers -> ContainerStates]
    <2>1. docker \in [Containers -> ContainerStates]
      BY DEF DiscoveryInv, ListInv
    <2>2. PICK c \in Containers :
              \/ docker' = [docker EXCEPT ![c].state = "stopped"]
              \/ docker' = [docker EXCEPT ![c].state = "running"]
              \/ docker' = [docker EXCEPT ![c].state = "removed"]
              \/ \E d \in Containers \ {c} :
                    docker' = [docker EXCEPT ![c].name = docker[d].name,
                                             ![d].name = docker[c].name]
      BY DEF Disturb
    <2>3. \A d \in Containers, name \in STRING :
              [docker[d] EXCEPT !.name = name] \in ContainerStates
      BY <2>1 DEF ContainerStates
    <2>4. \A d \in Containers, state \in {"running", "stopped", "removed"} :
              [docker[d] EXCEPT !.state = state] \in ContainerStates
      BY <2>1 DEF ContainerStates
    <2>5. \A d \in Containers : docker[d].name \in STRING
      BY <2>1 DEF ContainerStates
    <2>6. CASE \E d \in Containers \ {c} :
                   docker' = [docker EXCEPT ![c].name = docker[d].name, ![d].name = docker[c].name]
      <3>1. PICK d \in Containers \ {c} :
                docker' = [docker EXCEPT ![c].name = docker[d].name, ![d].name = docker[c].name]
        BY <2>6
      <3>2. docker' = [docker EXCEPT ![c] = [docker[c] EXCEPT !.name = docker[d].name],
                                     ![d] = [docker[d] EXCEPT !.name = docker[c].name]]
        BY <2>1, <3>1
      <3> QED
        BY <2>1, <2>3, <2>5, <3>2
    <2>7. CASE \E state \in {"running", "stopped", "removed"} :
                   docker' = [docker EXCEPT ![c].state = state]
      BY <2>1, <2>4, <2>7
    <2> QED
      BY <2>2, <2>6, <2>7
  <1>3. disturbances \in Nat /\ disturbances' \in Nat /\ disturbances' # 0
    BY <1>1 DEF DiscoveryInv, ListInv
  <1>4. ListInv'
    BY <1>1, <1>2, <1>3 DEF DiscoveryInv, ListInv
  <1>5. SeenInv' /\ CompleteInv' /\ RefusalIsTrue'
    BY <1>1, <1>3 DEF SeenInv, CompleteInv, RefusalIsTrue
  <1>6. PlanInv'
    <2>1. Matches' = Matches
      BY <1>1 DEF Matches, Masters, Correlate, LocalMatch, LocalConflict, PublishedEndpoint
    <2> QED
      BY <1>1, <2>1 DEF DiscoveryInv, PlanInv
  <1>7. DumpsWhatItSelected'
    BY <1>1 DEF DumpsWhatItSelected
  <1> QED
    BY <1>1, <1>4, <1>5, <1>6, <1>7 DEF DiscoveryInv

\* Every step keeps the invariant of the discovery.
LEMMA DiscoveryStep ==
  ASSUME DiscoveryInv, [DiscoveryNext]_discoveryVars
  PROVE  DiscoveryInv'
  <1>1. CASE UNCHANGED discoveryVars
    <2>1. UNCHANGED <<docker, phase, config, candidates, details, failed, decision, plan,
                      dumped, disturbances, stale, faults>>
      BY <1>1 DEF discoveryVars
    <2>2. /\ DockerConsistent' /\ Exact' = Exact
          /\ \A c : (Exists(c)' <=> Exists(c)) /\ Shown(c)' = Shown(c)
          /\ \A c \in Exact : Malformed(c)' <=> Malformed(c)
      BY <2>1, DockerKept DEF DiscoveryInv
    <2>3. ListInv'
      BY <2>1 DEF DiscoveryInv, ListInv
    <2>4. SeenInv'
      BY <2>1, <2>2 DEF DiscoveryInv, SeenInv
    <2>5. PlanInv'
      <3>1. Matches' = Matches
        BY <2>1 DEF Matches, Masters, Correlate, LocalMatch, LocalConflict, PublishedEndpoint
      <3> QED
        BY <2>1, <3>1 DEF DiscoveryInv, PlanInv
    <2>6. CompleteInv'
      BY <2>1, <2>2 DEF DiscoveryInv, CompleteInv
    <2>7. DumpsWhatItSelected'
      BY <2>1 DEF DiscoveryInv, DumpsWhatItSelected, Loosely
    <2>8. RefusalIsTrue'
      <3>1. CASE phase \in {"confirm", "done"}
        BY <2>1, <3>1, RefusalKept DEF DiscoveryInv
      <3>2. CASE phase \notin {"confirm", "done"}
        BY <2>1, <3>2 DEF RefusalIsTrue
      <3> QED
        BY <3>1, <3>2
    <2> QED
      BY <2>2, <2>3, <2>4, <2>5, <2>6, <2>7, <2>8 DEF DiscoveryInv
  <1> QED
    BY <1>1, ResolveInv, ListCandidatesInv, InspectInv, DecideInv, DumpContainerInv, DisturbInv
    DEF DiscoveryNext

\* The invariant of the discovery holds at the start.
LEMMA DiscoveryStart == DiscoveryInit => DiscoveryInv
  <1> SUFFICES ASSUME DiscoveryInit PROVE DiscoveryInv
    OBVIOUS
  <1>1. DOMAIN details = {}
    BY DEF DiscoveryInit
  <1>2. ListInv
    BY <1>1 DEF DiscoveryInit, ListInv
  <1>3. SeenInv /\ PlanInv /\ CompleteInv /\ DumpsWhatItSelected /\ RefusalIsTrue
    BY <1>1 DEF DiscoveryInit, SeenInv, PlanInv, CompleteInv, DumpsWhatItSelected, RefusalIsTrue
  <1> QED
    BY <1>2, <1>3 DEF DiscoveryInit, DiscoveryInv

\* Whatever the configuration is resolved to, however many containers there are and however
\* often they change, a dump that is filed under the selected container was taken from it,
\* unless a container has changed since or the address is ambiguous to the selection.
THEOREM DumpIsOfTheSelected == DiscoverySpec => []DumpsWhatItSelected
  <1>1. DiscoveryInv => DumpsWhatItSelected
    BY DEF DiscoveryInv
  <1> QED
    BY <1>1, DiscoveryStart, DiscoveryStep, PTL DEF DiscoverySpec

\* Where nothing fails and nothing changes, DiscoverContainer plans for the master or gives
\* the true reason why not, among any number of containers.
THEOREM RefusalReasonIsTrue == DiscoverySpec => []RefusalIsTrue
  <1>1. DiscoveryInv => RefusalIsTrue
    BY DEF DiscoveryInv
  <1> QED
    BY <1>1, DiscoveryStart, DiscoveryStep, PTL DEF DiscoverySpec
=============================================================================
