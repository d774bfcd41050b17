----------------------------- MODULE BackupAction -----------------------------
(***************************************************************************)
(* The legacy-database backup (internal/migration/backup_action.go,        *)
(* destination_store.go, manifest.go, process.go): RunWithProgress of one  *)
(* or more installer processes that share a destination directory.         *)
(*                                                                         *)
(* The directory is the shared state.  The staging dump has a random name, *)
(* so it is named by its operation; the lock has one fixed name; the       *)
(* published pair and the staged manifest are named by the SHA-256 of the  *)
(* dump, and two operations may dump identical bytes.  Each file remembers *)
(* the operation that created it (history: the code cannot tell).          *)
(* Removing a file of the destination succeeds where the code ignores the  *)
(* error; removing a password file may fail there too.                     *)
(***************************************************************************)
CONSTANTS
    Operations,   \* runs of the backup on one destination
    Sums,         \* SHA-256 values of dumps
    NoOne,        \* no such file
    Crashes       \* the installer may die

ASSUME NoOneAssumption == NoOne \notin Operations
ASSUME CrashesAssumption == Crashes \in BOOLEAN

VARIABLES
    pc,            \* the step of each operation
    cancelled,     \* its context has ended
    outcome,       \* its BackupOutcome
    process,       \* the ProcessOutcome of its dump helper
    closed,        \* osStagedArtifact.closed
    sum,           \* the checksum of what it dumps
    lock,          \* .alice-installer-backup.lock
    part,          \* operations whose .dump.part exists
    manifestPart,  \* the staged manifest of each checksum
    dump,          \* the published dump of each checksum
    manifest,      \* the published manifest of each checksum
    credential,    \* operations whose pgpass directory exists
    helper,        \* operations whose dump container runs
    validator      \* operations whose validation container runs

files   == <<lock, part, manifestPart, dump, manifest>>
secrets == <<credential, helper, validator>>
vars == <<pc, cancelled, outcome, process, closed, sum, files, secrets>>

Steps == {"preconditions", "prepare", "stage", "credentials", "dump", "helper",
          "reconcile", "sync", "close", "validate", "validating", "hash",
          "writeManifest", "renameDump", "renameManifest", "syncDirectory", "unpublish",
          "cleanupClose", "cleanupRemove", "done", "crashed"}

\* "HelperCleanupFailed" is BackupDumpFailed with the code BackupFailureHelperCleanup.
Outcomes  == {"pending", "Validated", "Cancelled", "PreconditionFailed",
              "DestinationFailed", "DumpFailed", "HelperCleanupFailed", "TimedOut",
              "ValidationFailed"}
ProcessOutcomes == {"none", "Succeeded", "Failed", "Cancelled", "TimedOut"}

Init ==
    /\ pc = [o \in Operations |-> "preconditions"]
    /\ cancelled = [o \in Operations |-> FALSE]
    /\ outcome = [o \in Operations |-> "pending"]
    /\ process = [o \in Operations |-> "none"]
    /\ closed = [o \in Operations |-> FALSE]
    /\ sum \in [Operations -> Sums]
    /\ lock = NoOne /\ part = {} /\ credential = {} /\ helper = {} /\ validator = {}
    /\ manifestPart = [x \in Sums |-> NoOne]
    /\ dump = [x \in Sums |-> NoOne] /\ manifest = [x \in Sums |-> NoOne]

Goto(o, step) == pc' = [pc EXCEPT ![o] = step] /\ UNCHANGED outcome

\* A result before Prepare has succeeded: nothing to clean up.
Return(o, result) ==
    pc' = [pc EXCEPT ![o] = "done"] /\ outcome' = [outcome EXCEPT ![o] = result]

\* Every later failing result runs the deferred staged.Cleanup().
Fail(o, result) ==
    pc' = [pc EXCEPT ![o] = "cleanupClose"] /\ outcome' = [outcome EXCEPT ![o] = result]

CancelledAt(o) == cancelled[o] /\ Fail(o, "Cancelled")

-----------------------------------------------------------------------------
(* Destination and staging.                                                 *)

Preconditions(o) ==
    /\ pc[o] = "preconditions"
    /\ \/ cancelled[o] /\ Return(o, "Cancelled")
       \/ Return(o, "PreconditionFailed")
       \/ ~cancelled[o] /\ Goto(o, "prepare")
    /\ UNCHANGED <<cancelled, process, closed, sum, files, secrets>>

\* Mutant: a held lock is waited for.
MutPrepare(o) ==
    /\ pc[o] = "prepare"
    /\ lock = NoOne /\ lock' = o /\ Goto(o, "stage")
    /\ UNCHANGED <<cancelled, process, closed, sum, part, manifestPart, dump, manifest, secrets>>

\* An unsafe or full destination, an ended context, or the lock file: O_CREATE|O_EXCL.
Prepare(o) ==
    /\ pc[o] = "prepare"
    /\ \/ lock = NoOne /\ lock' = o /\ Goto(o, "stage")
       \/ UNCHANGED lock /\ Return(o, "DestinationFailed")
    /\ UNCHANGED <<cancelled, process, closed, sum, part, manifestPart, dump, manifest, secrets>>

StageDump(o) ==
    /\ pc[o] = "stage"
    /\ \/ part' = part \union {o} /\ UNCHANGED lock /\ Goto(o, "credentials")
       \/ lock' = NoOne /\ UNCHANGED part /\ Return(o, "DestinationFailed")
    /\ UNCHANGED <<cancelled, process, closed, sum, manifestPart, dump, manifest, secrets>>

PrepareCredential(o) ==
    /\ pc[o] = "credentials"
    /\ \/ ~cancelled[o] /\ credential' = credential \union {o} /\ Goto(o, "dump")
       \/ UNCHANGED credential /\ CancelledAt(o)
       \/ credential' \in {credential, credential \union {o}} /\ Fail(o, "PreconditionFailed")
    /\ UNCHANGED <<cancelled, process, closed, sum, files, helper, validator>>

-----------------------------------------------------------------------------
(* RunHelper: the dump, then the reconciliation, which no context bounds.   *)

\* A dump that is not started gives its password file up, and ignores a failure to.
StartHelper(o) ==
    /\ pc[o] = "dump"
    /\ \/ ~cancelled[o] /\ helper' = helper \union {o} /\ UNCHANGED credential /\ Goto(o, "helper")
       \/ /\ credential' \in {credential, credential \ {o}} /\ UNCHANGED helper
          /\ CancelledAt(o) \/ Fail(o, "PreconditionFailed")
    /\ UNCHANGED <<cancelled, process, closed, sum, files, validator>>

\* The client is killed on cancellation and timeout; the container may go on.
HelperEnds(o) ==
    /\ pc[o] = "helper"
    /\ \E result \in ProcessOutcomes \ {"none"} :
         /\ result = "Cancelled" => cancelled[o]
         /\ process' = [process EXCEPT ![o] = result]
         /\ helper' \in {helper \ {o}} \union
                        (IF result = "Succeeded" THEN {} ELSE {helper})
    /\ Goto(o, "reconcile")
    /\ UNCHANGED <<cancelled, closed, sum, files, credential, validator>>

HelperOutcome(o) ==
    \/ process[o] = "Succeeded" /\ Goto(o, "sync")
    \/ process[o] = "Cancelled" /\ Fail(o, "Cancelled")
    \/ process[o] = "TimedOut"  /\ Fail(o, "TimedOut")
    \/ process[o] = "Failed"    /\ Fail(o, "DumpFailed")

\* CleanupHelper removes the container by name, then the credential goes; either failing
\* overrides what the dump returned.
Reconcile(o) ==
    /\ pc[o] = "reconcile"
    /\ \/ /\ helper' = helper \ {o} /\ credential' = credential \ {o}
          /\ HelperOutcome(o)
       \/ /\ helper' \in {helper, helper \ {o}} /\ credential' \in {credential, credential \ {o}}
          /\ Fail(o, "HelperCleanupFailed")
    /\ UNCHANGED <<cancelled, process, closed, sum, files, validator>>

-----------------------------------------------------------------------------
(* The staged file and its validation.                                      *)

SyncStaged(o) ==
    /\ pc[o] = "sync"
    /\ \/ ~cancelled[o] /\ Goto(o, "close")
       \/ CancelledAt(o) \/ Fail(o, "DestinationFailed")
    /\ UNCHANGED <<cancelled, process, closed, sum, files, secrets>>

\* Close also removes the lock file, whoever created it; a failed close of the file
\* leaves the lock to Cleanup.  An empty dump is refused after the close.
CloseStaged(o) ==
    /\ pc[o] = "close"
    /\ closed' = [closed EXCEPT ![o] = TRUE]
    /\ \/ lock' = NoOne /\ (Goto(o, "validate") \/ Fail(o, "DumpFailed"))
       \/ UNCHANGED lock /\ Fail(o, "DestinationFailed")
    /\ UNCHANGED <<cancelled, process, sum, part, manifestPart, dump, manifest, secrets>>

\* The validator checks the staged dump and starts a container of its own on it.
ValidateArchive(o) ==
    /\ pc[o] = "validate"
    /\ \/ ~cancelled[o] /\ o \in part /\ validator' = validator \union {o} /\ Goto(o, "validating")
       \/ UNCHANGED validator /\ (CancelledAt(o) \/ Fail(o, "ValidationFailed"))
    /\ UNCHANGED <<cancelled, process, closed, sum, files, credential, helper>>

\* Mutant: the validator does not look at the result of CleanupHelper.
MutValidatorEnds(o) ==
    /\ pc[o] = "validating"
    /\ validator' \in {validator, validator \ {o}}
    /\ \/ ~cancelled[o] /\ Goto(o, "hash")
       \/ Fail(o, "ValidationFailed")
    /\ UNCHANGED <<cancelled, process, closed, sum, files, credential, helper>>

\* Whatever became of its client, the container is removed by name, which no context but
\* its own bounds.  A failed removal, a bad listing and an ended context all refuse the dump.
ValidatorEnds(o) ==
    /\ pc[o] = "validating"
    /\ \/ ~cancelled[o] /\ validator' = validator \ {o} /\ Goto(o, "hash")
       \/ validator' \in {validator, validator \ {o}} /\ Fail(o, "ValidationFailed")
    /\ UNCHANGED <<cancelled, process, closed, sum, files, credential, helper>>

-----------------------------------------------------------------------------
(* PublishBackupPair.  Its deferred function removes what it created.       *)

HashDump(o) ==
    /\ pc[o] = "hash"
    /\ \/ ~cancelled[o] /\ Goto(o, "writeManifest") /\ UNCHANGED part
       \/ CancelledAt(o) /\ UNCHANGED part
       \/ part' = part \ {o} /\ Fail(o, "DestinationFailed")
    /\ UNCHANGED <<cancelled, process, closed, sum, lock, manifestPart, dump, manifest, secrets>>

\* manifestStagedCreated is set after the context check that follows the write.
WriteManifest(o) ==
    /\ pc[o] = "writeManifest"
    /\ \/ /\ manifestPart[sum[o]] = NoOne
          /\ manifestPart' = [manifestPart EXCEPT ![sum[o]] = o]
          /\ IF cancelled[o] THEN part' = part \ {o} /\ Fail(o, "DestinationFailed")
             ELSE UNCHANGED part /\ Goto(o, "renameDump")
       \/ UNCHANGED manifestPart /\ part' = part \ {o} /\ Fail(o, "DestinationFailed")
    /\ UNCHANGED <<cancelled, process, closed, sum, lock, dump, manifest, secrets>>

\* Mutant: the rename replaces an existing dump.
MutRenameDumpReplaces(o) ==
    /\ pc[o] = "renameDump"
    /\ part' = part \ {o}
    /\ dump' = [dump EXCEPT ![sum[o]] = o]
    /\ Goto(o, "renameManifest")
    /\ UNCHANGED <<cancelled, process, closed, sum, lock, manifestPart, manifest, secrets>>

\* Mutant: the cleanup of a collision removes the dump it did not create.
MutRenameDumpRemoves(o) ==
    /\ pc[o] = "renameDump"
    /\ part' = part \ {o}
    /\ \/ /\ dump[sum[o]] = NoOne
          /\ dump' = [dump EXCEPT ![sum[o]] = o] /\ Goto(o, "renameManifest")
       \/ dump' = [dump EXCEPT ![sum[o]] = NoOne] /\ Fail(o, "DestinationFailed")
    /\ UNCHANGED <<cancelled, process, closed, sum, lock, manifestPart, manifest, secrets>>

\* renameNoReplace: the target must not exist.
RenameDump(o) ==
    /\ pc[o] = "renameDump"
    /\ part' = part \ {o}
    /\ \/ /\ dump[sum[o]] = NoOne
          /\ dump' = [dump EXCEPT ![sum[o]] = o]
          /\ Goto(o, "renameManifest") /\ UNCHANGED manifestPart
       \/ /\ manifestPart' = [manifestPart EXCEPT ![sum[o]] = NoOne]
          /\ Fail(o, "DestinationFailed") /\ UNCHANGED dump
    /\ UNCHANGED <<cancelled, process, closed, sum, lock, manifest, secrets>>

RenameManifest(o) ==
    /\ pc[o] = "renameManifest"
    /\ manifestPart' = [manifestPart EXCEPT ![sum[o]] = NoOne]
    /\ \/ /\ manifest[sum[o]] = NoOne
          /\ manifest' = [manifest EXCEPT ![sum[o]] = o]
          /\ Goto(o, "syncDirectory") /\ UNCHANGED dump
       \/ /\ dump' = [dump EXCEPT ![sum[o]] = NoOne]
          /\ Fail(o, "DestinationFailed") /\ UNCHANGED manifest
    /\ UNCHANGED <<cancelled, process, closed, sum, lock, part, secrets>>

\* A pair that cannot be synced is withdrawn: the dump first, then the manifest.
SyncDirectory(o) ==
    /\ pc[o] = "syncDirectory"
    /\ \/ ~cancelled[o] /\ Return(o, "Validated") /\ UNCHANGED dump
       \/ dump' = [dump EXCEPT ![sum[o]] = NoOne] /\ Goto(o, "unpublish")
    /\ UNCHANGED <<cancelled, process, closed, sum, lock, part, manifestPart, manifest, secrets>>

\* Mutant: only the dump is withdrawn.
MutUnpublishManifest(o) ==
    /\ pc[o] = "unpublish"
    /\ Fail(o, "DestinationFailed")
    /\ UNCHANGED <<cancelled, process, closed, sum, files, secrets>>

UnpublishManifest(o) ==
    /\ pc[o] = "unpublish"
    /\ manifest' = [manifest EXCEPT ![sum[o]] = NoOne]
    /\ Fail(o, "DestinationFailed")
    /\ UNCHANGED <<cancelled, process, closed, sum, lock, part, manifestPart, dump, secrets>>

-----------------------------------------------------------------------------
(* staged.Cleanup(): Close, remove the staged dump, remove the lock again.  *)

CleanupClose(o) ==
    /\ pc[o] = "cleanupClose"
    /\ Goto(o, "cleanupRemove")
    /\ closed' = [closed EXCEPT ![o] = TRUE]
    /\ lock' = IF closed[o] THEN lock ELSE NoOne
    /\ UNCHANGED <<cancelled, process, sum, part, manifestPart, dump, manifest, secrets>>

CleanupRemove(o) ==
    /\ pc[o] = "cleanupRemove"
    /\ Goto(o, "done")
    /\ part' = part \ {o} /\ lock' = NoOne
    /\ UNCHANGED <<cancelled, process, closed, sum, manifestPart, dump, manifest, secrets>>

-----------------------------------------------------------------------------
Cancel(o) ==
    /\ pc[o] \notin {"done", "crashed"} /\ ~cancelled[o]
    /\ cancelled' = [cancelled EXCEPT ![o] = TRUE]
    /\ UNCHANGED <<pc, outcome, process, closed, sum, files, secrets>>

Crash(o) ==
    /\ Crashes /\ pc[o] \notin {"done", "crashed"}
    /\ pc' = [pc EXCEPT ![o] = "crashed"]
    /\ UNCHANGED <<cancelled, outcome, process, closed, sum, files, secrets>>

\* A container whose client is gone ends by itself (docker run --rm).
HelperExits(o) ==
    /\ \/ o \in helper /\ pc[o] # "helper" /\ helper' = helper \ {o} /\ UNCHANGED validator
       \/ /\ o \in validator /\ pc[o] # "validating" /\ validator' = validator \ {o}
          /\ UNCHANGED helper
    /\ UNCHANGED <<pc, cancelled, outcome, process, closed, sum, files, credential>>

Run(o) ==
    \/ Preconditions(o) \/ Prepare(o) \/ StageDump(o) \/ PrepareCredential(o)
    \/ StartHelper(o) \/ HelperEnds(o) \/ Reconcile(o)
    \/ SyncStaged(o) \/ CloseStaged(o) \/ ValidateArchive(o) \/ ValidatorEnds(o)
    \/ HashDump(o) \/ WriteManifest(o) \/ RenameDump(o) \/ RenameManifest(o)
    \/ SyncDirectory(o) \/ UnpublishManifest(o) \/ CleanupClose(o) \/ CleanupRemove(o)

Next == \E o \in Operations : Run(o) \/ Cancel(o) \/ Crash(o) \/ HelperExits(o)

\* The dump and the validation are killed at their timeouts; file operations return.
Spec == Init /\ [][Next]_vars /\ \A o \in Operations : WF_vars(Run(o))

-----------------------------------------------------------------------------
\* One type invariant for the operations, the destination directory and the secrets.
TypeOK ==
    /\ pc \in [Operations -> Steps] /\ cancelled \in [Operations -> BOOLEAN]
    /\ outcome \in [Operations -> Outcomes] /\ process \in [Operations -> ProcessOutcomes]
    /\ closed \in [Operations -> BOOLEAN] /\ sum \in [Operations -> Sums]
    /\ lock \in Operations \union {NoOne} /\ part \subseteq Operations
    /\ manifestPart \in [Sums -> Operations \union {NoOne}]
    /\ dump \in [Sums -> Operations \union {NoOne}]
    /\ manifest \in [Sums -> Operations \union {NoOne}]
    /\ credential \subseteq Operations /\ helper \subseteq Operations
    /\ validator \subseteq Operations

Done(o) == pc[o] = "done"

\* An operation reported as validated owns its published dump and its manifest, for
\* good: no other operation's cleanup, collision, crash or retry takes them away.
ValidatedMeansPaired ==
    \A o \in Operations : outcome[o] = "Validated" =>
        dump[sum[o]] = o /\ manifest[sum[o]] = o

\* An operation that failed leaves no staged dump and no published file of its own.
FailureLeavesNothingPublished ==
    \A o \in Operations : Done(o) /\ outcome[o] # "Validated" =>
        o \notin part /\ \A x \in Sums : dump[x] # o /\ manifest[x] # o

\* What outlives an operation is told by its result: the dump's container only by a failed
\* reconciliation, the validator's only by a failed validation, and the password file by a
\* failed reconciliation or a dump that was never started.  When every operation has
\* returned, the next one finds the destination unlocked.
NothingLeftBehind ==
    /\ \A o \in Operations : Done(o) =>
           /\ o \in helper => outcome[o] = "HelperCleanupFailed"
           /\ o \in validator => outcome[o] = "ValidationFailed"
           /\ o \in credential => outcome[o] = "HelperCleanupFailed" \/ process[o] = "none"
    /\ (\A o \in Operations : Done(o)) => lock = NoOne

\* A published file is never replaced, only withdrawn by its owner before it reports.
NeverReplaced ==
    [][\A x \in Sums :
          /\ dump[x] # NoOne /\ dump'[x] # dump[x] => dump'[x] = NoOne /\ ~Done(dump[x])
          /\ manifest[x] # NoOne /\ manifest'[x] # manifest[x] =>
                manifest'[x] = NoOne /\ ~Done(manifest[x])]_vars

\* Every operation returns or its process dies.
Terminates == <>(\A o \in Operations : pc[o] \in {"done", "crashed"})

-----------------------------------------------------------------------------
(* What the specification of the change says and the code does not do.      *)

\* From its staging file to its publication, the cleanup not counted.
Active(o) == pc[o] \notin {"preconditions", "prepare", "unpublish", "cleanupClose",
                           "cleanupRemove", "done", "crashed"}

\* spec.md:400 and 416: one operation per destination; a second one is not started.
OneActiveOperation ==
    \A o, p \in Operations : o # p => ~(Active(o) /\ Active(p))

\* spec.md:409: a cancellation removes the temporary artifacts.
CancellationRemovesTemporaries ==
    \A o \in Operations : Done(o) /\ cancelled[o] /\ outcome[o] # "Validated" =>
        \A x \in Sums : manifestPart[x] # o

\* design.md:502: on error and cancellation the pgpass file is removed too.  A removal that
\* fails is told by "HelperCleanupFailed".
PasswordNeverStays ==
    \A o \in Operations : Done(o) /\ outcome[o] # "HelperCleanupFailed" => o \notin credential
=============================================================================
