---------------------- MODULE RestoreCoordinatorProofs ----------------------
(***************************************************************************)
(* Proofs about the restore coordinator, for every set of platforms,       *)
(* either form of the backup destination, and whether or not Compose lists *)
(* what has stopped, unless a theorem says which.                          *)
(***************************************************************************)
EXTENDS RestoreCoordinator, TLAPS

USE DEF result, control, contexts, target, artefacts, IInv, TypeOK, Done, Phases, Running,
        BeforeStop, Gates, Unpublished, Archived, AfterDrop, Unproved, Proved

\* A replacement that fails keeps the result well classified: rollback reports it, an
\* untouched target goes to recovery, a touched one to rollback.
LEMMA ReplaceFailsResult ==
  ASSUME IInv, NEW m \in BOOLEAN, ReplaceFails(m), pc # "done", phase # "recovery"
  PROVE  ResultTypeOK' /\ ResultInv' /\ PhaseInv'
  <1>1. CASE phase = "rollback"
    <2>1. ResultTypeOK'
      BY <1>1 DEF ResultTypeOK, ReplaceFails, RollbackFails, RollbackStatus, Return,
         Rollbacks, Codes
    <2>2. ResultInv' /\ PhaseInv'
      BY <1>1 DEF ResultInv, PhaseInv, ReplaceFails, RollbackFails, RollbackStatus, Return
    <2> QED BY <2>1, <2>2
  <1>2. CASE phase # "rollback" /\ m
    <2>1. ResultTypeOK'
      BY <1>2 DEF ResultTypeOK, ReplaceFails, Rollback, Outcomes, Stages, Codes
    <2>2. ResultInv' /\ PhaseInv'
      BY <1>2 DEF ControlTypeOK, ResultInv, PhaseInv, ReplaceFails, Rollback
    <2> QED BY <2>1, <2>2
  <1>3. CASE phase # "rollback" /\ ~m
    <2>1. ResultTypeOK'
      BY <1>3 DEF ResultTypeOK, ReplaceFails, RecoverBeforeCutover, Stages, Codes
    <2>2. ResultInv' /\ PhaseInv'
      BY <1>3 DEF ControlTypeOK, ResultInv, PhaseInv, ReplaceFails,
         RecoverBeforeCutover
    <2> QED BY <2>1, <2>2
  <1> QED BY <1>1, <1>2, <1>3

\* A failed command keeps the types of what is still running, and never takes back that
\* something outlived its client.
LEMMA AmbiguousOrphans ==
  ASSUME NEW command \in Commands, NEW effects, orphaned \in BOOLEAN,
         orphans \subseteq Commands, ~orphaned => orphans = {}, Ambiguous(command, effects)
  PROVE  /\ orphaned' \in BOOLEAN /\ orphans' \subseteq Commands
         /\ orphaned => orphaned'
         /\ ~orphaned' => orphans' = {}
  <1>1. CASE UNCHANGED <<orphans, orphaned>> BY <1>1
  <1>2. CASE orphans' = orphans \union {command} /\ orphaned' = TRUE BY <1>2
  <1> QED BY <1>1, <1>2 DEF Ambiguous

\* Refusing a platform, or a missing collaborator, changes nothing but the result.
LEMMA GateInv == IInv /\ Gate => IInv'
  <1> SUFFICES ASSUME IInv, Gate PROVE IInv' OBVIOUS
  <1> USE DEF Gate, Return, Goto, ReturnBeforeCutover, SupportedPlatforms
  <1>1. ControlTypeOK' BY DEF ControlTypeOK, Steps
  <1>2. ResultTypeOK' BY DEF ControlTypeOK, ResultTypeOK, Outcomes, Stages, Rollbacks, Codes
  <1>3. WorldTypeOK' BY DEF WorldTypeOK, Contents, Backends, Commands, Archives
  <1>4. PhaseInv' BY DEF ControlTypeOK, ResultTypeOK, WorldTypeOK, PhaseInv
  <1>5. MutationInv' BY DEF ControlTypeOK, ResultTypeOK, WorldTypeOK, PhaseInv, MutationInv
  <1>6. ResultInv'
    BY DEF ControlTypeOK, ResultTypeOK, WorldTypeOK, PhaseInv, MutationInv, ResultInv,
       BeforeCutoverOutcomes
  <1>7. BackendInv'
    BY DEF ControlTypeOK, ResultTypeOK, WorldTypeOK, Backends, PhaseInv, BackendInv
  <1>8. ContentInv'
    BY DEF ControlTypeOK, ResultTypeOK, WorldTypeOK, Backends, PhaseInv, MutationInv,
       BackendInv, ContentInv
  <1>9. VerdictInv'
    BY DEF ControlTypeOK, ResultTypeOK, WorldTypeOK, Backends, PhaseInv, MutationInv,
       ResultInv, BackendInv, ContentInv, VerdictInv, BeforeCutoverOutcomes,
       BeforeCutoverMeansUntouched, SuccessMeansLegacyServed,
       RollbackVerdictIsTrue, UncancelledFailureServesAgain
  <1> QED BY <1>1, <1>2, <1>3, <1>4, <1>5, <1>6, <1>7, <1>8, <1>9

\* The wait ends by its timer or by the caller.
LEMMA WaitInv == IInv /\ Wait => IInv'
  <1> SUFFICES ASSUME IInv, Wait PROVE IInv' OBVIOUS
  <1> USE DEF Wait, Return, Goto, ReturnBeforeCutover
  <1>1. ControlTypeOK' BY DEF ControlTypeOK, Steps
  <1>2. ResultTypeOK' BY DEF ControlTypeOK, ResultTypeOK, Outcomes, Stages, Rollbacks, Codes
  <1>3. WorldTypeOK' BY DEF WorldTypeOK, Contents, Backends, Commands, Archives
  <1>4. PhaseInv' BY DEF ControlTypeOK, ResultTypeOK, WorldTypeOK, PhaseInv
  <1>5. MutationInv' BY DEF ControlTypeOK, ResultTypeOK, WorldTypeOK, PhaseInv, MutationInv
  <1>6. ResultInv'
    BY DEF ControlTypeOK, ResultTypeOK, WorldTypeOK, PhaseInv, MutationInv, ResultInv,
       BeforeCutoverOutcomes
  <1>7. BackendInv'
    BY DEF ControlTypeOK, ResultTypeOK, WorldTypeOK, Backends, PhaseInv, BackendInv
  <1>8. ContentInv'
    BY DEF ControlTypeOK, ResultTypeOK, WorldTypeOK, Backends, PhaseInv, MutationInv,
       BackendInv, ContentInv
  <1>9. VerdictInv'
    BY DEF ControlTypeOK, ResultTypeOK, WorldTypeOK, Backends, PhaseInv, MutationInv,
       ResultInv, BackendInv, ContentInv, VerdictInv, BeforeCutoverOutcomes,
       BeforeCutoverMeansUntouched, SuccessMeansLegacyServed,
       RollbackVerdictIsTrue, UncancelledFailureServesAgain
  <1> QED BY <1>1, <1>2, <1>3, <1>4, <1>5, <1>6, <1>7, <1>8, <1>9

\* The first identity probe is taken with the backend still healthy.
LEMMA ProveIdentityInv == IInv /\ ProveIdentity => IInv'
  <1> SUFFICES ASSUME IInv, ProveIdentity PROVE IInv' OBVIOUS
  <1> USE DEF ProveIdentity, Return, Goto, ReturnBeforeCutover
  <1>1. ControlTypeOK' BY DEF ControlTypeOK, Steps
  <1>2. ResultTypeOK' BY DEF ControlTypeOK, ResultTypeOK, Outcomes, Stages, Rollbacks, Codes
  <1>3. WorldTypeOK'
    BY DEF WorldTypeOK, Contents, Backends, Commands, Archives, Ok, Failed, Live
  <1>4. PhaseInv' BY DEF ControlTypeOK, ResultTypeOK, WorldTypeOK, PhaseInv
  <1>5. MutationInv' BY DEF ControlTypeOK, ResultTypeOK, WorldTypeOK, PhaseInv, MutationInv
  <1>6. ResultInv'
    BY DEF ControlTypeOK, ResultTypeOK, WorldTypeOK, PhaseInv, MutationInv, ResultInv,
       BeforeCutoverOutcomes
  <1>7. BackendInv'
    BY DEF ControlTypeOK, ResultTypeOK, WorldTypeOK, Backends, PhaseInv, BackendInv
  <1>8. ContentInv'
    BY DEF ControlTypeOK, ResultTypeOK, WorldTypeOK, Backends, PhaseInv, MutationInv,
       BackendInv, ContentInv
  <1>9. VerdictInv'
    BY DEF ControlTypeOK, ResultTypeOK, WorldTypeOK, Backends, PhaseInv, MutationInv,
       ResultInv, BackendInv, ContentInv, VerdictInv, BeforeCutoverOutcomes,
       BeforeCutoverMeansUntouched, SuccessMeansLegacyServed,
       RollbackVerdictIsTrue, UncancelledFailureServesAgain
  <1> QED BY <1>1, <1>2, <1>3, <1>4, <1>5, <1>6, <1>7, <1>8, <1>9

\* The stop opens the window in which the database may be replaced.
LEMMA StopBackendInv == IInv /\ StopBackend => IInv'
  <1> SUFFICES ASSUME IInv, StopBackend PROVE IInv' OBVIOUS
  <1> USE DEF StopBackend, Return, Goto, ReturnBeforeCutover
  <1>1. ControlTypeOK' BY DEF ControlTypeOK, Steps
  <1>2. ResultTypeOK' BY DEF ControlTypeOK, ResultTypeOK, Outcomes, Stages, Rollbacks, Codes
  <1>3. WorldTypeOK'
    BY DEF WorldTypeOK, Contents, Backends, Commands, Archives, Ok, Failed, Live
  <1>4. PhaseInv' BY DEF ControlTypeOK, ResultTypeOK, WorldTypeOK, PhaseInv
  <1>5. MutationInv' BY DEF ControlTypeOK, ResultTypeOK, WorldTypeOK, PhaseInv, MutationInv
  <1>6. ResultInv'
    BY DEF ControlTypeOK, ResultTypeOK, WorldTypeOK, PhaseInv, MutationInv, ResultInv,
       BeforeCutoverOutcomes
  <1>7. BackendInv'
    BY DEF ControlTypeOK, ResultTypeOK, WorldTypeOK, Backends, PhaseInv, BackendInv
  <1>8. ContentInv'
    BY DEF ControlTypeOK, ResultTypeOK, WorldTypeOK, Backends, PhaseInv, MutationInv,
       BackendInv, ContentInv
  <1>9. VerdictInv'
    BY DEF ControlTypeOK, ResultTypeOK, WorldTypeOK, Backends, PhaseInv, MutationInv,
       ResultInv, BackendInv, ContentInv, VerdictInv, BeforeCutoverOutcomes,
       BeforeCutoverMeansUntouched, SuccessMeansLegacyServed,
       RollbackVerdictIsTrue, UncancelledFailureServesAgain
  <1> QED BY <1>1, <1>2, <1>3, <1>4, <1>5, <1>6, <1>7, <1>8, <1>9

\* Reading the credentials fails into recovery.
LEMMA ReadTargetDatabaseInv == IInv /\ ReadTargetDatabase => IInv'
  <1> SUFFICES ASSUME IInv, ReadTargetDatabase PROVE IInv' OBVIOUS
  <1> USE DEF ReadTargetDatabase, Goto, RecoverBeforeCutover
  <1>1. ControlTypeOK' BY DEF ControlTypeOK, Steps
  <1>2. ResultTypeOK' BY DEF ControlTypeOK, ResultTypeOK, Outcomes, Stages, Rollbacks, Codes
  <1>3. WorldTypeOK'
    BY DEF WorldTypeOK, Contents, Backends, Commands, Archives, Ok, Failed, Live
  <1>4. PhaseInv' BY DEF ControlTypeOK, ResultTypeOK, WorldTypeOK, PhaseInv
  <1>5. MutationInv' BY DEF ControlTypeOK, ResultTypeOK, WorldTypeOK, PhaseInv, MutationInv
  <1>6. ResultInv'
    BY DEF ControlTypeOK, ResultTypeOK, WorldTypeOK, PhaseInv, MutationInv, ResultInv,
       BeforeCutoverOutcomes
  <1>7. BackendInv'
    BY DEF ControlTypeOK, ResultTypeOK, WorldTypeOK, Backends, PhaseInv, BackendInv
  <1>8. ContentInv'
    BY DEF ControlTypeOK, ResultTypeOK, WorldTypeOK, Backends, PhaseInv, MutationInv,
       BackendInv, ContentInv
  <1>9. VerdictInv'
    BY DEF ControlTypeOK, ResultTypeOK, WorldTypeOK, Backends, PhaseInv, MutationInv,
       ResultInv, BackendInv, ContentInv, VerdictInv, BeforeCutoverOutcomes,
       BeforeCutoverMeansUntouched, SuccessMeansLegacyServed,
       RollbackVerdictIsTrue, UncancelledFailureServesAgain
  <1> QED BY <1>1, <1>2, <1>3, <1>4, <1>5, <1>6, <1>7, <1>8, <1>9

\* Revalidating the legacy dump fails into recovery.
LEMMA RevalidateLegacyInv == IInv /\ RevalidateLegacy => IInv'
  <1> SUFFICES ASSUME IInv, RevalidateLegacy PROVE IInv' OBVIOUS
  <1> USE DEF RevalidateLegacy, Goto, RecoverBeforeCutover
  <1>1. ControlTypeOK' BY DEF ControlTypeOK, Steps
  <1>2. ResultTypeOK' BY DEF ControlTypeOK, ResultTypeOK, Outcomes, Stages, Rollbacks, Codes
  <1>3. WorldTypeOK'
    BY DEF WorldTypeOK, Contents, Backends, Commands, Archives, Ok, Failed, Live
  <1>4. PhaseInv' BY DEF ControlTypeOK, ResultTypeOK, WorldTypeOK, PhaseInv
  <1>5. MutationInv' BY DEF ControlTypeOK, ResultTypeOK, WorldTypeOK, PhaseInv, MutationInv
  <1>6. ResultInv'
    BY DEF ControlTypeOK, ResultTypeOK, WorldTypeOK, PhaseInv, MutationInv, ResultInv,
       BeforeCutoverOutcomes
  <1>7. BackendInv'
    BY DEF ControlTypeOK, ResultTypeOK, WorldTypeOK, Backends, PhaseInv, BackendInv
  <1>8. ContentInv'
    BY DEF ControlTypeOK, ResultTypeOK, WorldTypeOK, Backends, PhaseInv, MutationInv,
       BackendInv, ContentInv
  <1>9. VerdictInv'
    BY DEF ControlTypeOK, ResultTypeOK, WorldTypeOK, Backends, PhaseInv, MutationInv,
       ResultInv, BackendInv, ContentInv, VerdictInv, BeforeCutoverOutcomes,
       BeforeCutoverMeansUntouched, SuccessMeansLegacyServed,
       RollbackVerdictIsTrue, UncancelledFailureServesAgain
  <1> QED BY <1>1, <1>2, <1>3, <1>4, <1>5, <1>6, <1>7, <1>8, <1>9

\* The PostgreSQL probes fail into recovery.
LEMMA CheckPostgresInv == IInv /\ CheckPostgres => IInv'
  <1> SUFFICES ASSUME IInv, CheckPostgres PROVE IInv' OBVIOUS
  <1> USE DEF CheckPostgres, Goto, RecoverBeforeCutover
  <1>1. ControlTypeOK' BY DEF ControlTypeOK, Steps
  <1>2. ResultTypeOK' BY DEF ControlTypeOK, ResultTypeOK, Outcomes, Stages, Rollbacks, Codes
  <1>3. WorldTypeOK'
    BY DEF WorldTypeOK, Contents, Backends, Commands, Archives, Credentials, CredentialRemoved,
       Ok, Failed, Live
  <1>4. PhaseInv' BY DEF ControlTypeOK, ResultTypeOK, WorldTypeOK, PhaseInv
  <1>5. MutationInv' BY DEF ControlTypeOK, ResultTypeOK, WorldTypeOK, PhaseInv, MutationInv
  <1>6. ResultInv'
    BY DEF ControlTypeOK, ResultTypeOK, WorldTypeOK, PhaseInv, MutationInv, ResultInv,
       BeforeCutoverOutcomes, CredentialRemoved
  <1>7. BackendInv'
    BY DEF ControlTypeOK, ResultTypeOK, WorldTypeOK, Backends, PhaseInv, BackendInv
  <1>8. ContentInv'
    BY DEF ControlTypeOK, ResultTypeOK, WorldTypeOK, Backends, PhaseInv, MutationInv,
       BackendInv, ContentInv
  <1>9. VerdictInv'
    BY DEF ControlTypeOK, ResultTypeOK, WorldTypeOK, Backends, PhaseInv, MutationInv,
       ResultInv, BackendInv, ContentInv, VerdictInv, BeforeCutoverOutcomes,
       BeforeCutoverMeansUntouched, SuccessMeansLegacyServed,
       RollbackVerdictIsTrue, UncancelledFailureServesAgain
  <1> QED BY <1>1, <1>2, <1>3, <1>4, <1>5, <1>6, <1>7, <1>8, <1>9

\* The dump is taken while the backend is stopped, so it is current.
LEMMA StageTargetDumpInv == IInv /\ StageTargetDump => IInv'
  <1> SUFFICES ASSUME IInv, StageTargetDump PROVE IInv' OBVIOUS
  <1> USE DEF StageTargetDump, Goto, TargetBackupRefused, RecoverBeforeCutover
  <1>1. ControlTypeOK' BY DEF ControlTypeOK, Steps
  <1>2. ResultTypeOK' BY DEF ControlTypeOK, ResultTypeOK, Outcomes, Stages, Rollbacks, Codes
  <1>3. WorldTypeOK'
    BY DEF WorldTypeOK, Contents, Backends, Commands, Archives, Credentials, CredentialRemoved,
       Ok, Failed, Live
  <1>4. PhaseInv' BY DEF ControlTypeOK, ResultTypeOK, WorldTypeOK, PhaseInv
  <1>5. MutationInv' BY DEF ControlTypeOK, ResultTypeOK, WorldTypeOK, PhaseInv, MutationInv
  <1>6. ResultInv'
    BY DEF ControlTypeOK, ResultTypeOK, WorldTypeOK, PhaseInv, MutationInv, ResultInv,
       BeforeCutoverOutcomes, CredentialRemoved
  <1>7. BackendInv'
    BY DEF ControlTypeOK, ResultTypeOK, WorldTypeOK, Backends, PhaseInv, BackendInv
  <1>8. ContentInv'
    BY DEF ControlTypeOK, ResultTypeOK, WorldTypeOK, Backends, PhaseInv, MutationInv,
       BackendInv, ContentInv
  <1>9. VerdictInv'
    BY DEF ControlTypeOK, ResultTypeOK, WorldTypeOK, Backends, PhaseInv, MutationInv,
       ResultInv, BackendInv, ContentInv, VerdictInv, BeforeCutoverOutcomes,
       BeforeCutoverMeansUntouched, SuccessMeansLegacyServed,
       RollbackVerdictIsTrue, UncancelledFailureServesAgain
  <1> QED BY <1>1, <1>2, <1>3, <1>4, <1>5, <1>6, <1>7, <1>8, <1>9

\* The staging check fails into recovery.
LEMMA CheckTargetStagingInv == IInv /\ CheckTargetStaging => IInv'
  <1> SUFFICES ASSUME IInv, CheckTargetStaging PROVE IInv' OBVIOUS
  <1> USE DEF CheckTargetStaging, Goto, TargetBackupRefused, RecoverBeforeCutover
  <1>1. ControlTypeOK' BY DEF ControlTypeOK, Steps
  <1>2. ResultTypeOK' BY DEF ControlTypeOK, ResultTypeOK, Outcomes, Stages, Rollbacks, Codes
  <1>3. WorldTypeOK'
    BY DEF WorldTypeOK, Contents, Backends, Commands, Archives, Ok, Failed, Live
  <1>4. PhaseInv' BY DEF ControlTypeOK, ResultTypeOK, WorldTypeOK, PhaseInv
  <1>5. MutationInv' BY DEF ControlTypeOK, ResultTypeOK, WorldTypeOK, PhaseInv, MutationInv
  <1>6. ResultInv'
    BY DEF ControlTypeOK, ResultTypeOK, WorldTypeOK, PhaseInv, MutationInv, ResultInv,
       BeforeCutoverOutcomes
  <1>7. BackendInv'
    BY DEF ControlTypeOK, ResultTypeOK, WorldTypeOK, Backends, PhaseInv, BackendInv
  <1>8. ContentInv'
    BY DEF ControlTypeOK, ResultTypeOK, WorldTypeOK, Backends, PhaseInv, MutationInv,
       BackendInv, ContentInv
  <1>9. VerdictInv'
    BY DEF ControlTypeOK, ResultTypeOK, WorldTypeOK, Backends, PhaseInv, MutationInv,
       ResultInv, BackendInv, ContentInv, VerdictInv, BeforeCutoverOutcomes,
       BeforeCutoverMeansUntouched, SuccessMeansLegacyServed,
       RollbackVerdictIsTrue, UncancelledFailureServesAgain
  <1> QED BY <1>1, <1>2, <1>3, <1>4, <1>5, <1>6, <1>7, <1>8, <1>9

\* The archive validation fails into recovery.
LEMMA ValidateTargetDumpInv == IInv /\ ValidateTargetDump => IInv'
  <1> SUFFICES ASSUME IInv, ValidateTargetDump PROVE IInv' OBVIOUS
  <1> USE DEF ValidateTargetDump, Goto, TargetBackupRefused, RecoverBeforeCutover
  <1>1. ControlTypeOK' BY DEF ControlTypeOK, Steps
  <1>2. ResultTypeOK' BY DEF ControlTypeOK, ResultTypeOK, Outcomes, Stages, Rollbacks, Codes
  <1>3. WorldTypeOK'
    BY DEF WorldTypeOK, Contents, Backends, Commands, Archives, Ok, Failed, Live
  <1>4. PhaseInv' BY DEF ControlTypeOK, ResultTypeOK, WorldTypeOK, PhaseInv
  <1>5. MutationInv' BY DEF ControlTypeOK, ResultTypeOK, WorldTypeOK, PhaseInv, MutationInv
  <1>6. ResultInv'
    BY DEF ControlTypeOK, ResultTypeOK, WorldTypeOK, PhaseInv, MutationInv, ResultInv,
       BeforeCutoverOutcomes
  <1>7. BackendInv'
    BY DEF ControlTypeOK, ResultTypeOK, WorldTypeOK, Backends, PhaseInv, BackendInv
  <1>8. ContentInv'
    BY DEF ControlTypeOK, ResultTypeOK, WorldTypeOK, Backends, PhaseInv, MutationInv,
       BackendInv, ContentInv
  <1>9. VerdictInv'
    BY DEF ControlTypeOK, ResultTypeOK, WorldTypeOK, Backends, PhaseInv, MutationInv,
       ResultInv, BackendInv, ContentInv, VerdictInv, BeforeCutoverOutcomes,
       BeforeCutoverMeansUntouched, SuccessMeansLegacyServed,
       RollbackVerdictIsTrue, UncancelledFailureServesAgain
  <1> QED BY <1>1, <1>2, <1>3, <1>4, <1>5, <1>6, <1>7, <1>8, <1>9

\* Publication opens the way to the replacement.
LEMMA PublishTargetRollbackInv == IInv /\ PublishTargetRollback => IInv'
  <1> SUFFICES ASSUME IInv, PublishTargetRollback PROVE IInv' OBVIOUS
  <1> USE DEF PublishTargetRollback, Goto, TargetBackupRefused, RecoverBeforeCutover
  <1>1. ControlTypeOK' BY DEF ControlTypeOK, Steps
  <1>2. ResultTypeOK' BY DEF ControlTypeOK, ResultTypeOK, Outcomes, Stages, Rollbacks, Codes
  <1>3. WorldTypeOK' BY DEF WorldTypeOK, Contents, Backends, Commands, Archives
  <1>4. PhaseInv' BY DEF ControlTypeOK, ResultTypeOK, WorldTypeOK, PhaseInv
  <1>5. MutationInv' BY DEF ControlTypeOK, ResultTypeOK, WorldTypeOK, PhaseInv, MutationInv
  <1>6. ResultInv'
    BY DEF ControlTypeOK, ResultTypeOK, WorldTypeOK, PhaseInv, MutationInv, ResultInv,
       BeforeCutoverOutcomes
  <1>7. BackendInv'
    BY DEF ControlTypeOK, ResultTypeOK, WorldTypeOK, Backends, PhaseInv, BackendInv
  <1>8. ContentInv'
    BY DEF ControlTypeOK, ResultTypeOK, WorldTypeOK, Backends, PhaseInv, MutationInv,
       BackendInv, ContentInv
  <1>9. VerdictInv'
    BY DEF ControlTypeOK, ResultTypeOK, WorldTypeOK, Backends, PhaseInv, MutationInv,
       ResultInv, BackendInv, ContentInv, VerdictInv, BeforeCutoverOutcomes,
       BeforeCutoverMeansUntouched, SuccessMeansLegacyServed,
       RollbackVerdictIsTrue, UncancelledFailureServesAgain
  <1> QED BY <1>1, <1>2, <1>3, <1>4, <1>5, <1>6, <1>7, <1>8, <1>9

\* Terminating sessions leaves the database alone.
LEMMA TerminateSessionsInv == IInv /\ TerminateSessions => IInv'
  <1> SUFFICES ASSUME IInv, TerminateSessions PROVE IInv' OBVIOUS
  <1>a. pc # "done" /\ phase # "recovery" /\ mutated \in BOOLEAN
    BY DEF ResultTypeOK, PhaseInv, TerminateSessions
  <1>b. ReplaceFails(mutated) => ResultTypeOK' /\ ResultInv' /\ PhaseInv'
    BY <1>a, ReplaceFailsResult
  <1> USE DEF TerminateSessions, Goto, ReplaceFails, Rollback, RollbackFails,
       RollbackStatus, RecoverBeforeCutover, CredentialRemoved, Return
  <1>1. ControlTypeOK' BY DEF ControlTypeOK, Steps
  <1>2. ResultTypeOK'
    <2>1. CASE ReplaceFails(mutated)
      BY <2>1, <1>b
    <2>2. CASE Goto("drop") /\ UNCHANGED pgpassLeft
      BY <2>2 DEF ControlTypeOK, ResultTypeOK, Outcomes, Stages, Rollbacks, Codes
    <2> QED BY <2>1, <2>2
  <1>3. WorldTypeOK'
    BY DEF WorldTypeOK, Contents, Backends, Commands, Archives, Credentials, CredentialRemoved,
       Ok, Failed, Live
  <1>4. PhaseInv'
    <2>1. CASE ReplaceFails(mutated)
      BY <2>1, <1>b
    <2>2. CASE Goto("drop") /\ UNCHANGED pgpassLeft
      BY <2>2 DEF ControlTypeOK, ResultTypeOK, WorldTypeOK, PhaseInv
    <2> QED BY <2>1, <2>2
  <1>5. MutationInv'
    <2>1. CASE ReplaceFails(mutated)
      <3>1. CASE phase = "rollback"
        BY <2>1, <3>1 DEF ControlTypeOK, ResultTypeOK, WorldTypeOK, PhaseInv,
           MutationInv
      <3>2. CASE phase = "forward"
        BY <2>1, <3>2 DEF ControlTypeOK, ResultTypeOK, WorldTypeOK, PhaseInv,
           MutationInv
      <3> QED BY <3>1, <3>2 DEF ControlTypeOK, PhaseInv
    <2>2. CASE Goto("drop") /\ UNCHANGED pgpassLeft
      BY <2>2 DEF ControlTypeOK, ResultTypeOK, WorldTypeOK, PhaseInv, MutationInv
    <2> QED BY <2>1, <2>2
  <1>6. ResultInv'
    <2>1. CASE ReplaceFails(mutated)
      BY <2>1, <1>b
    <2>2. CASE Goto("drop") /\ UNCHANGED pgpassLeft
      BY <2>2 DEF ControlTypeOK, ResultTypeOK, WorldTypeOK, PhaseInv, MutationInv,
         ResultInv, BeforeCutoverOutcomes
    <2> QED BY <2>1, <2>2
  <1>7. BackendInv'
    BY DEF ControlTypeOK, ResultTypeOK, WorldTypeOK, Backends, PhaseInv, BackendInv
  <1>8. ContentInv'
    BY DEF ControlTypeOK, ResultTypeOK, WorldTypeOK, Backends, PhaseInv, MutationInv,
       BackendInv, ContentInv
  <1>9. VerdictInv'
    BY DEF ControlTypeOK, ResultTypeOK, WorldTypeOK, Backends, PhaseInv, MutationInv,
       ResultInv, BackendInv, ContentInv, VerdictInv, BeforeCutoverOutcomes,
       BeforeCutoverMeansUntouched, SuccessMeansLegacyServed,
       RollbackVerdictIsTrue, UncancelledFailureServesAgain
  <1> QED BY <1>1, <1>2, <1>3, <1>4, <1>5, <1>6, <1>7, <1>8, <1>9

\* The drop raises the mutation flag, and rollback repeats it.
LEMMA DropDatabaseInv == IInv /\ DropDatabase => IInv'
  <1> SUFFICES ASSUME IInv, DropDatabase PROVE IInv' OBVIOUS
  <1>a. pc # "done" /\ phase # "recovery" /\ mutated \in BOOLEAN
    BY DEF ResultTypeOK, PhaseInv, DropDatabase
  <1>b. ReplaceFails(mutated) => ResultTypeOK' /\ ResultInv' /\ PhaseInv'
    BY <1>a, ReplaceFailsResult
  <1>c. ReplaceFails(TRUE) => ResultTypeOK' /\ ResultInv' /\ PhaseInv'
    BY <1>a, ReplaceFailsResult
  <1>d. /\ orphaned' \in BOOLEAN /\ orphans' \subseteq Commands
        /\ orphaned => orphaned'
        /\ ~orphaned' => orphans' = {}
    <2>1. orphaned \in BOOLEAN /\ orphans \subseteq Commands /\ (~orphaned => orphans = {})
      BY DEF WorldTypeOK, MutationInv
    <2>2. CASE UNCHANGED <<orphans, orphaned>> BY <2>1, <2>2
    <2>c. "drop" \in Commands BY DEF Commands
    <2>3. CASE Ambiguous("drop", {db, "absent"})
      BY <2>1, <2>c, <2>3, AmbiguousOrphans
    <2> QED BY <2>2, <2>3 DEF DropDatabase
  <1> USE DEF DropDatabase, Ambiguous, ReplaceFails, Rollback, RollbackFails,
       RollbackStatus, RecoverBeforeCutover, CredentialRemoved, Return
  <1>1. ControlTypeOK' BY DEF ControlTypeOK, Steps
  <1>2. ResultTypeOK'
    <2>1. CASE ReplaceFails(mutated) /\ UNCHANGED <<db, orphans, orphaned>>
      BY <2>1, <1>b
    <2>2. CASE ReplaceFails(TRUE) /\ Ambiguous("drop", {db, "absent"})
      BY <2>2, <1>c
    <2>3. CASE pc' = "create" /\ mutated' = TRUE /\ db' = "absent"
              /\ UNCHANGED <<phase, outcome, stage, rollback, healthy, code, orphans, orphaned,
                             pgpassLeft>>
      BY <2>3 DEF ControlTypeOK, ResultTypeOK, Outcomes, Stages, Rollbacks, Codes
    <2> QED BY <2>1, <2>2, <2>3
  <1>3. WorldTypeOK'
    BY <1>d DEF WorldTypeOK, Contents, Backends, Commands, Archives, Credentials, CredentialRemoved,
       Ok, Failed, Live
  <1>4. PhaseInv'
    <2>1. CASE ReplaceFails(mutated) /\ UNCHANGED <<db, orphans, orphaned>>
      BY <2>1, <1>b
    <2>2. CASE ReplaceFails(TRUE) /\ Ambiguous("drop", {db, "absent"})
      BY <2>2, <1>c
    <2>3. CASE pc' = "create" /\ mutated' = TRUE /\ db' = "absent"
              /\ UNCHANGED <<phase, outcome, stage, rollback, healthy, code, orphans, orphaned,
                             pgpassLeft>>
      BY <2>3 DEF ControlTypeOK, ResultTypeOK, WorldTypeOK, PhaseInv
    <2> QED BY <2>1, <2>2, <2>3
  <1>5. MutationInv'
    <2>1. CASE ReplaceFails(mutated) /\ UNCHANGED <<db, orphans, orphaned>>
      <3>1. CASE phase = "rollback"
        BY <2>1, <3>1 DEF ControlTypeOK, ResultTypeOK, WorldTypeOK, PhaseInv,
           MutationInv
      <3>2. CASE phase = "forward"
        BY <2>1, <3>2 DEF ControlTypeOK, ResultTypeOK, WorldTypeOK, PhaseInv,
           MutationInv
      <3> QED BY <3>1, <3>2 DEF ControlTypeOK, PhaseInv
    <2>2. CASE ReplaceFails(TRUE) /\ Ambiguous("drop", {db, "absent"})
      <3>1. CASE phase = "rollback"
        BY <2>2, <3>1 DEF ControlTypeOK, ResultTypeOK, WorldTypeOK, PhaseInv,
           MutationInv
      <3>2. CASE phase = "forward"
        BY <2>2, <3>2 DEF ControlTypeOK, ResultTypeOK, WorldTypeOK, PhaseInv,
           MutationInv
      <3> QED BY <3>1, <3>2 DEF ControlTypeOK, PhaseInv
    <2>3. CASE pc' = "create" /\ mutated' = TRUE /\ db' = "absent"
              /\ UNCHANGED <<phase, outcome, stage, rollback, healthy, code, orphans, orphaned,
                             pgpassLeft>>
      BY <2>3 DEF ControlTypeOK, ResultTypeOK, WorldTypeOK, PhaseInv, MutationInv
    <2> QED BY <2>1, <2>2, <2>3
  <1>6. ResultInv'
    <2>1. CASE ReplaceFails(mutated) /\ UNCHANGED <<db, orphans, orphaned>>
      BY <2>1, <1>b
    <2>2. CASE ReplaceFails(TRUE) /\ Ambiguous("drop", {db, "absent"})
      BY <2>2, <1>c
    <2>3. CASE pc' = "create" /\ mutated' = TRUE /\ db' = "absent"
              /\ UNCHANGED <<phase, outcome, stage, rollback, healthy, code, orphans, orphaned,
                             pgpassLeft>>
      BY <2>3 DEF ControlTypeOK, ResultTypeOK, WorldTypeOK, PhaseInv, MutationInv,
         ResultInv, BeforeCutoverOutcomes
    <2> QED BY <2>1, <2>2, <2>3
  <1>7. BackendInv'
    BY DEF ControlTypeOK, ResultTypeOK, WorldTypeOK, Backends, PhaseInv, BackendInv
  <1>8. ContentInv'
    BY DEF ControlTypeOK, ResultTypeOK, WorldTypeOK, Backends, PhaseInv, MutationInv,
       BackendInv, ContentInv
  <1>9. VerdictInv'
    BY DEF ControlTypeOK, ResultTypeOK, WorldTypeOK, Backends, PhaseInv, MutationInv,
       ResultInv, BackendInv, ContentInv, VerdictInv, BeforeCutoverOutcomes,
       BeforeCutoverMeansUntouched, SuccessMeansLegacyServed,
       RollbackVerdictIsTrue, UncancelledFailureServesAgain
  <1> QED BY <1>1, <1>2, <1>3, <1>4, <1>5, <1>6, <1>7, <1>8, <1>9

\* The create happens after the drop, in either phase.
LEMMA CreateDatabaseInv == IInv /\ CreateDatabase => IInv'
  <1> SUFFICES ASSUME IInv, CreateDatabase PROVE IInv' OBVIOUS
  <1>a. pc # "done" /\ phase # "recovery" /\ mutated \in BOOLEAN
    BY DEF ResultTypeOK, PhaseInv, CreateDatabase
  <1>b. ReplaceFails(mutated) => ResultTypeOK' /\ ResultInv' /\ PhaseInv'
    BY <1>a, ReplaceFailsResult
  <1>d. /\ orphaned' \in BOOLEAN /\ orphans' \subseteq Commands
        /\ orphaned => orphaned'
        /\ ~orphaned' => orphans' = {}
    <2>1. orphaned \in BOOLEAN /\ orphans \subseteq Commands /\ (~orphaned => orphans = {})
      BY DEF WorldTypeOK, MutationInv
    <2>2. CASE UNCHANGED <<orphans, orphaned>> BY <2>1, <2>2
    <2>c. "create" \in Commands BY DEF Commands
    <2>3. CASE Ambiguous("create", {db} \union (IF db = "absent" THEN {"empty"} ELSE {}))
      BY <2>1, <2>c, <2>3, AmbiguousOrphans
    <2> QED BY <2>2, <2>3 DEF CreateDatabase
  <1> USE DEF CreateDatabase, Goto, Ambiguous, ReplaceFails, Rollback, RollbackFails,
       RollbackStatus, RecoverBeforeCutover, CredentialRemoved, Return
  <1>1. ControlTypeOK' BY DEF ControlTypeOK, Steps
  <1>2. ResultTypeOK'
    <2>1. CASE ReplaceFails(mutated)
      BY <2>1, <1>b
    <2>2. CASE Goto("load") /\ UNCHANGED pgpassLeft
      BY <2>2 DEF ControlTypeOK, ResultTypeOK, Outcomes, Stages, Rollbacks, Codes
    <2> QED BY <2>1, <2>2
  <1>3. WorldTypeOK'
    BY <1>d DEF WorldTypeOK, Contents, Backends, Commands, Archives, Credentials, CredentialRemoved,
       Ok, Failed, Live
  <1>4. PhaseInv'
    <2>1. CASE ReplaceFails(mutated)
      BY <2>1, <1>b
    <2>2. CASE Goto("load") /\ UNCHANGED pgpassLeft
      BY <2>2 DEF ControlTypeOK, ResultTypeOK, WorldTypeOK, PhaseInv
    <2> QED BY <2>1, <2>2
  <1>5. MutationInv'
    <2>1. CASE ReplaceFails(mutated)
      BY <1>d, <2>1 DEF ControlTypeOK, ResultTypeOK, WorldTypeOK, PhaseInv, MutationInv
    <2>2. CASE Goto("load") /\ UNCHANGED <<orphans, orphaned>>
      BY <2>2 DEF ControlTypeOK, ResultTypeOK, WorldTypeOK, PhaseInv, MutationInv
    <2> QED BY <2>1, <2>2
  <1>6. ResultInv'
    <2>1. CASE ReplaceFails(mutated)
      BY <2>1, <1>b
    <2>2. CASE Goto("load") /\ UNCHANGED pgpassLeft
      BY <2>2 DEF ControlTypeOK, ResultTypeOK, WorldTypeOK, PhaseInv, MutationInv,
         ResultInv, BeforeCutoverOutcomes
    <2> QED BY <2>1, <2>2
  <1>7. BackendInv'
    BY DEF ControlTypeOK, ResultTypeOK, WorldTypeOK, Backends, PhaseInv, BackendInv
  <1>8. ContentInv'
    BY DEF ControlTypeOK, ResultTypeOK, WorldTypeOK, Backends, PhaseInv, MutationInv,
       BackendInv, ContentInv
  <1>9. VerdictInv'
    BY DEF ControlTypeOK, ResultTypeOK, WorldTypeOK, Backends, PhaseInv, MutationInv,
       ResultInv, BackendInv, ContentInv, VerdictInv, BeforeCutoverOutcomes,
       BeforeCutoverMeansUntouched, SuccessMeansLegacyServed,
       RollbackVerdictIsTrue, UncancelledFailureServesAgain
  <1> QED BY <1>1, <1>2, <1>3, <1>4, <1>5, <1>6, <1>7, <1>8, <1>9

\* The load puts the legacy or the archived data in place.
LEMMA RestoreArchiveInv == IInv /\ RestoreArchive => IInv'
  <1> SUFFICES ASSUME IInv, RestoreArchive PROVE IInv' OBVIOUS
  <1>a. pc # "done" /\ phase # "recovery" /\ mutated \in BOOLEAN
    BY DEF ResultTypeOK, PhaseInv, RestoreArchive
  <1>b. ReplaceFails(mutated) => ResultTypeOK' /\ ResultInv' /\ PhaseInv'
    BY <1>a, ReplaceFailsResult
  <1>d. /\ orphaned' \in BOOLEAN /\ orphans' \subseteq Commands
        /\ orphaned => orphaned'
        /\ ~orphaned' => orphans' = {}
    <2>1. orphaned \in BOOLEAN /\ orphans \subseteq Commands /\ (~orphaned => orphans = {})
      BY DEF WorldTypeOK, MutationInv
    <2>2. CASE UNCHANGED <<orphans, orphaned>> BY <2>1, <2>2
    <2>c. Load \in Commands BY DEF Commands, Load
    <2>3. CASE Ambiguous(Load, LoadEffects(Source))
      BY <2>1, <2>c, <2>3, AmbiguousOrphans
    <2> QED BY <2>2, <2>3 DEF RestoreArchive
  <1> USE DEF RestoreArchive, Goto, Ambiguous, Source, Load, LoadEffects, ReplaceFails,
       Rollback, RollbackFails, RollbackStatus, RecoverBeforeCutover, CredentialRemoved,
       Return
  <1>1. ControlTypeOK' BY DEF ControlTypeOK, Steps
  <1>2. ResultTypeOK'
    <2>1. CASE ReplaceFails(mutated)
      BY <2>1, <1>b
    <2>2. CASE Goto("validate") /\ UNCHANGED pgpassLeft
      BY <2>2 DEF ControlTypeOK, ResultTypeOK, Outcomes, Stages, Rollbacks, Codes
    <2> QED BY <2>1, <2>2
  <1>3. WorldTypeOK'
    BY <1>d DEF WorldTypeOK, Contents, Backends, Commands, Archives, Credentials, CredentialRemoved,
       Ok, Failed, Live
  <1>4. PhaseInv'
    <2>1. CASE ReplaceFails(mutated)
      BY <2>1, <1>b
    <2>2. CASE Goto("validate") /\ UNCHANGED pgpassLeft
      BY <2>2 DEF ControlTypeOK, ResultTypeOK, WorldTypeOK, PhaseInv
    <2> QED BY <2>1, <2>2
  <1>5. MutationInv'
    <2>1. CASE ReplaceFails(mutated)
      BY <1>d, <2>1 DEF ControlTypeOK, ResultTypeOK, WorldTypeOK, PhaseInv, MutationInv
    <2>2. CASE Goto("validate") /\ UNCHANGED <<orphans, orphaned>>
      BY <2>2 DEF ControlTypeOK, ResultTypeOK, WorldTypeOK, PhaseInv, MutationInv
    <2> QED BY <2>1, <2>2
  <1>6. ResultInv'
    <2>1. CASE ReplaceFails(mutated)
      BY <2>1, <1>b
    <2>2. CASE Goto("validate") /\ UNCHANGED pgpassLeft
      BY <2>2 DEF ControlTypeOK, ResultTypeOK, WorldTypeOK, PhaseInv, MutationInv,
         ResultInv, BeforeCutoverOutcomes
    <2> QED BY <2>1, <2>2
  <1>7. BackendInv'
    BY DEF ControlTypeOK, ResultTypeOK, WorldTypeOK, Backends, PhaseInv, BackendInv
  <1>8. ContentInv'
    BY DEF ControlTypeOK, ResultTypeOK, WorldTypeOK, Backends, PhaseInv, MutationInv,
       BackendInv, ContentInv
  <1>9. VerdictInv'
    BY DEF ControlTypeOK, ResultTypeOK, WorldTypeOK, Backends, PhaseInv, MutationInv,
       ResultInv, BackendInv, ContentInv, VerdictInv, BeforeCutoverOutcomes,
       BeforeCutoverMeansUntouched, SuccessMeansLegacyServed,
       RollbackVerdictIsTrue, UncancelledFailureServesAgain
  <1> QED BY <1>1, <1>2, <1>3, <1>4, <1>5, <1>6, <1>7, <1>8, <1>9

\* A validated replacement leads to the backend start.
LEMMA ValidateDatabaseInv == IInv /\ ValidateDatabase => IInv'
  <1> SUFFICES ASSUME IInv, ValidateDatabase PROVE IInv' OBVIOUS
  <1>a. pc # "done" /\ phase # "recovery" /\ mutated \in BOOLEAN
    BY DEF ResultTypeOK, PhaseInv, ValidateDatabase
  <1>b. ReplaceFails(mutated) => ResultTypeOK' /\ ResultInv' /\ PhaseInv'
    BY <1>a, ReplaceFailsResult
  <1> USE DEF ValidateDatabase, Goto, ReplaceFails, Rollback, RollbackFails,
       RollbackStatus, RecoverBeforeCutover, CredentialRemoved, Return
  <1>1. ControlTypeOK' BY DEF ControlTypeOK, Steps
  <1>2. ResultTypeOK'
    <2>1. CASE ReplaceFails(mutated)
      BY <2>1, <1>b
    <2>2. CASE Goto(IF phase = "rollback" THEN "start" ELSE "identity2") /\ UNCHANGED pgpassLeft
      BY <2>2 DEF ControlTypeOK, ResultTypeOK, Outcomes, Stages, Rollbacks, Codes
    <2> QED BY <2>1, <2>2
  <1>3. WorldTypeOK'
    BY DEF WorldTypeOK, Contents, Backends, Commands, Archives, Credentials, CredentialRemoved,
       Ok, Failed, Live
  <1>4. PhaseInv'
    <2>1. CASE ReplaceFails(mutated)
      BY <2>1, <1>b
    <2>2. CASE Goto(IF phase = "rollback" THEN "start" ELSE "identity2") /\ UNCHANGED pgpassLeft
      BY <2>2 DEF ControlTypeOK, ResultTypeOK, WorldTypeOK, PhaseInv
    <2> QED BY <2>1, <2>2
  <1>5. MutationInv' BY DEF ControlTypeOK, ResultTypeOK, WorldTypeOK, PhaseInv, MutationInv
  <1>6. ResultInv'
    <2>1. CASE ReplaceFails(mutated)
      BY <2>1, <1>b
    <2>2. CASE Goto(IF phase = "rollback" THEN "start" ELSE "identity2") /\ UNCHANGED pgpassLeft
      BY <2>2 DEF ControlTypeOK, ResultTypeOK, WorldTypeOK, PhaseInv, MutationInv,
         ResultInv, BeforeCutoverOutcomes
    <2> QED BY <2>1, <2>2
  <1>7. BackendInv'
    BY DEF ControlTypeOK, ResultTypeOK, WorldTypeOK, Backends, PhaseInv, BackendInv
  <1>8. ContentInv'
    BY DEF ControlTypeOK, ResultTypeOK, WorldTypeOK, Backends, PhaseInv, MutationInv,
       BackendInv, ContentInv
  <1>9. VerdictInv'
    BY DEF ControlTypeOK, ResultTypeOK, WorldTypeOK, Backends, PhaseInv, MutationInv,
       ResultInv, BackendInv, ContentInv, VerdictInv, BeforeCutoverOutcomes,
       BeforeCutoverMeansUntouched, SuccessMeansLegacyServed,
       RollbackVerdictIsTrue, UncancelledFailureServesAgain
  <1> QED BY <1>1, <1>2, <1>3, <1>4, <1>5, <1>6, <1>7, <1>8, <1>9

\* The second identity probe fails into rollback.
LEMMA ProveIdentityAgainInv == IInv /\ ProveIdentityAgain => IInv'
  <1> SUFFICES ASSUME IInv, ProveIdentityAgain PROVE IInv' OBVIOUS
  <1> USE DEF ProveIdentityAgain, Goto, Rollback
  <1>1. ControlTypeOK' BY DEF ControlTypeOK, Steps
  <1>2. ResultTypeOK' BY DEF ControlTypeOK, ResultTypeOK, Outcomes, Stages, Rollbacks, Codes
  <1>3. WorldTypeOK'
    BY DEF WorldTypeOK, Contents, Backends, Commands, Archives, Ok, Failed, Live
  <1>4. PhaseInv' BY DEF ControlTypeOK, ResultTypeOK, WorldTypeOK, PhaseInv
  <1>5. MutationInv' BY DEF ControlTypeOK, ResultTypeOK, WorldTypeOK, PhaseInv, MutationInv
  <1>6. ResultInv'
    BY DEF ControlTypeOK, ResultTypeOK, WorldTypeOK, PhaseInv, MutationInv, ResultInv,
       BeforeCutoverOutcomes
  <1>7. BackendInv'
    BY DEF ControlTypeOK, ResultTypeOK, WorldTypeOK, Backends, PhaseInv, BackendInv
  <1>8. ContentInv'
    BY DEF ControlTypeOK, ResultTypeOK, WorldTypeOK, Backends, PhaseInv, MutationInv,
       BackendInv, ContentInv
  <1>9. VerdictInv'
    BY DEF ControlTypeOK, ResultTypeOK, WorldTypeOK, Backends, PhaseInv, MutationInv,
       ResultInv, BackendInv, ContentInv, VerdictInv, BeforeCutoverOutcomes,
       BeforeCutoverMeansUntouched, SuccessMeansLegacyServed,
       RollbackVerdictIsTrue, UncancelledFailureServesAgain
  <1> QED BY <1>1, <1>2, <1>3, <1>4, <1>5, <1>6, <1>7, <1>8, <1>9

\* The backend starts over the legacy, the untouched or the restored data.
LEMMA StartBackendInv == IInv /\ StartBackend => IInv'
  <1> SUFFICES ASSUME IInv, StartBackend PROVE IInv' OBVIOUS
  <1> USE DEF StartBackend, Goto, Started, BackendUnavailable, Rollback, Return,
       ReturnBeforeCutover
  <1>1. ControlTypeOK' BY DEF ControlTypeOK, Steps
  <1>2. ResultTypeOK'
    <2>1. CASE phase = "forward"
      BY <2>1 DEF ControlTypeOK, ResultTypeOK, Outcomes, Stages, Rollbacks, Codes
    <2>2. CASE phase = "recovery"
      BY <2>2 DEF ControlTypeOK, ResultTypeOK, Outcomes, Stages, Rollbacks, Codes
    <2>3. CASE phase = "rollback"
      BY <2>3 DEF ControlTypeOK, ResultTypeOK, Outcomes, Stages, Rollbacks, Codes
    <2> QED BY <2>1, <2>2, <2>3 DEF ControlTypeOK
  <1>3. WorldTypeOK'
    BY DEF WorldTypeOK, Contents, Backends, Commands, Archives, Ok, Failed, Live
  <1>4. PhaseInv' BY DEF ControlTypeOK, ResultTypeOK, WorldTypeOK, PhaseInv
  <1>5. MutationInv' BY DEF ControlTypeOK, ResultTypeOK, WorldTypeOK, PhaseInv, MutationInv
  <1>6. ResultInv'
    BY DEF ControlTypeOK, ResultTypeOK, WorldTypeOK, PhaseInv, MutationInv, ResultInv,
       BeforeCutoverOutcomes
  <1>7. BackendInv'
    BY DEF ControlTypeOK, ResultTypeOK, WorldTypeOK, Backends, PhaseInv, BackendInv
  <1>8. ContentInv'
    BY DEF ControlTypeOK, ResultTypeOK, WorldTypeOK, Backends, PhaseInv, MutationInv,
       BackendInv, ContentInv
  <1>9. VerdictInv'
    BY DEF ControlTypeOK, ResultTypeOK, WorldTypeOK, Backends, PhaseInv, MutationInv,
       ResultInv, BackendInv, ContentInv, VerdictInv, BeforeCutoverOutcomes,
       BeforeCutoverMeansUntouched, SuccessMeansLegacyServed,
       RollbackVerdictIsTrue, UncancelledFailureServesAgain
  <1> QED BY <1>1, <1>2, <1>3, <1>4, <1>5, <1>6, <1>7, <1>8, <1>9

\* The health probe decides the verdict.
LEMMA WaitHealthyInv == IInv /\ WaitHealthy => IInv'
  <1> SUFFICES ASSUME IInv, WaitHealthy PROVE IInv' OBVIOUS
  <1> USE DEF WaitHealthy, Goto, BackendHealthy, BackendUnavailable, Rollback, Return,
       ReturnBeforeCutover
  <1>1. ControlTypeOK' BY DEF ControlTypeOK, Steps
  <1>2. ResultTypeOK'
    <2>1. CASE phase = "forward"
      BY <2>1 DEF ControlTypeOK, ResultTypeOK, Outcomes, Stages, Rollbacks, Codes
    <2>2. CASE phase = "recovery"
      BY <2>2 DEF ControlTypeOK, ResultTypeOK, Outcomes, Stages, Rollbacks, Codes
    <2>3. CASE phase = "rollback"
      BY <2>3 DEF ControlTypeOK, ResultTypeOK, Outcomes, Stages, Rollbacks, Codes
    <2> QED BY <2>1, <2>2, <2>3 DEF ControlTypeOK
  <1>3. WorldTypeOK'
    BY DEF WorldTypeOK, Contents, Backends, Commands, Archives, Ok, Failed, Live
  <1>4. PhaseInv' BY DEF ControlTypeOK, ResultTypeOK, WorldTypeOK, PhaseInv
  <1>5. MutationInv' BY DEF ControlTypeOK, ResultTypeOK, WorldTypeOK, PhaseInv, MutationInv
  <1>6. ResultInv'
    BY DEF ControlTypeOK, ResultTypeOK, WorldTypeOK, PhaseInv, MutationInv, ResultInv,
       BeforeCutoverOutcomes
  <1>7. BackendInv'
    BY DEF ControlTypeOK, ResultTypeOK, WorldTypeOK, Backends, PhaseInv, BackendInv
  <1>8. ContentInv'
    BY DEF ControlTypeOK, ResultTypeOK, WorldTypeOK, Backends, PhaseInv, MutationInv,
       BackendInv, ContentInv
  <1>9. VerdictInv'
    BY DEF ControlTypeOK, ResultTypeOK, WorldTypeOK, Backends, PhaseInv, MutationInv,
       ResultInv, BackendInv, ContentInv, VerdictInv, BeforeCutoverOutcomes,
       BeforeCutoverMeansUntouched, SuccessMeansLegacyServed,
       RollbackVerdictIsTrue, UncancelledFailureServesAgain
  <1> QED BY <1>1, <1>2, <1>3, <1>4, <1>5, <1>6, <1>7, <1>8, <1>9

\* The probes of rollback fail into a partial cutover.
LEMMA RollbackPostgresInv == IInv /\ RollbackPostgres => IInv'
  <1> SUFFICES ASSUME IInv, RollbackPostgres PROVE IInv' OBVIOUS
  <1> USE DEF RollbackPostgres, Goto, RollbackFails, RollbackStatus, Return
  <1>1. ControlTypeOK' BY DEF ControlTypeOK, Steps
  <1>2. ResultTypeOK' BY DEF ControlTypeOK, ResultTypeOK, Outcomes, Stages, Rollbacks, Codes
  <1>3. WorldTypeOK'
    BY DEF WorldTypeOK, Contents, Backends, Commands, Archives, Credentials, CredentialRemoved,
       Ok, Failed, Live
  <1>4. PhaseInv' BY DEF ControlTypeOK, ResultTypeOK, WorldTypeOK, PhaseInv
  <1>5. MutationInv'
    <2>1. CASE Goto(IF pc = "postgres" THEN "stop" ELSE "terminate")
      BY <2>1 DEF ControlTypeOK, ResultTypeOK, WorldTypeOK, PhaseInv, MutationInv
    <2>2. CASE RollbackFails("restore-rollback-postgres")
      BY <2>2 DEF ControlTypeOK, ResultTypeOK, WorldTypeOK, PhaseInv, MutationInv
    <2> QED BY <2>1, <2>2
  <1>6. ResultInv'
    BY DEF ControlTypeOK, ResultTypeOK, WorldTypeOK, PhaseInv, MutationInv, ResultInv,
       BeforeCutoverOutcomes
  <1>7. BackendInv'
    BY DEF ControlTypeOK, ResultTypeOK, WorldTypeOK, Backends, PhaseInv, BackendInv
  <1>8. ContentInv'
    BY DEF ControlTypeOK, ResultTypeOK, WorldTypeOK, Backends, PhaseInv, MutationInv,
       BackendInv, ContentInv
  <1>9. VerdictInv'
    BY DEF ControlTypeOK, ResultTypeOK, WorldTypeOK, Backends, PhaseInv, MutationInv,
       ResultInv, BackendInv, ContentInv, VerdictInv, BeforeCutoverOutcomes,
       BeforeCutoverMeansUntouched, SuccessMeansLegacyServed,
       RollbackVerdictIsTrue, UncancelledFailureServesAgain
  <1> QED BY <1>1, <1>2, <1>3, <1>4, <1>5, <1>6, <1>7, <1>8, <1>9

\* Rollback stops a backend that may be serving the legacy data.
LEMMA RollbackStopInv == IInv /\ RollbackStop => IInv'
  <1> SUFFICES ASSUME IInv, RollbackStop PROVE IInv' OBVIOUS
  <1> USE DEF RollbackStop
  <1>1. ControlTypeOK' BY DEF ControlTypeOK, Steps
  <1>2. ResultTypeOK' BY DEF ControlTypeOK, ResultTypeOK, Outcomes, Stages, Rollbacks, Codes
  <1>3. WorldTypeOK'
    BY DEF WorldTypeOK, Contents, Backends, Commands, Archives, Ok, Failed, Live
  <1>4. PhaseInv' BY DEF ControlTypeOK, ResultTypeOK, WorldTypeOK, PhaseInv
  <1>5. MutationInv' BY DEF ControlTypeOK, ResultTypeOK, WorldTypeOK, PhaseInv, MutationInv
  <1>6. ResultInv'
    BY DEF ControlTypeOK, ResultTypeOK, WorldTypeOK, PhaseInv, MutationInv, ResultInv,
       BeforeCutoverOutcomes
  <1>7. BackendInv'
    BY DEF ControlTypeOK, ResultTypeOK, WorldTypeOK, Backends, PhaseInv, BackendInv
  <1>8. ContentInv'
    BY DEF ControlTypeOK, ResultTypeOK, WorldTypeOK, Backends, PhaseInv, MutationInv,
       BackendInv, ContentInv
  <1>9. VerdictInv'
    BY DEF ControlTypeOK, ResultTypeOK, WorldTypeOK, Backends, PhaseInv, MutationInv,
       ResultInv, BackendInv, ContentInv, VerdictInv, BeforeCutoverOutcomes,
       BeforeCutoverMeansUntouched, SuccessMeansLegacyServed,
       RollbackVerdictIsTrue, UncancelledFailureServesAgain
  <1> QED BY <1>1, <1>2, <1>3, <1>4, <1>5, <1>6, <1>7, <1>8, <1>9

\* Only a proved stop lets rollback replace the database.
LEMMA RollbackProofInv == IInv /\ RollbackProof => IInv'
  <1> SUFFICES ASSUME IInv, RollbackProof PROVE IInv' OBVIOUS
  <1> USE DEF RollbackProof, Goto, Return
  <1>1. ControlTypeOK' BY DEF ControlTypeOK, Steps
  <1>2. ResultTypeOK' BY DEF ControlTypeOK, ResultTypeOK, Outcomes, Stages, Rollbacks, Codes
  <1>3. WorldTypeOK' BY DEF WorldTypeOK, Contents, Backends, Commands, Archives
  <1>4. PhaseInv' BY DEF ControlTypeOK, ResultTypeOK, WorldTypeOK, PhaseInv
  <1>5. MutationInv' BY DEF ControlTypeOK, ResultTypeOK, WorldTypeOK, PhaseInv, MutationInv
  <1>6. ResultInv'
    BY DEF ControlTypeOK, ResultTypeOK, WorldTypeOK, PhaseInv, MutationInv, ResultInv,
       BeforeCutoverOutcomes
  <1>7. BackendInv'
    BY DEF ControlTypeOK, ResultTypeOK, WorldTypeOK, Backends, PhaseInv, BackendInv
  <1>8. ContentInv'
    BY DEF ControlTypeOK, ResultTypeOK, WorldTypeOK, Backends, PhaseInv, MutationInv,
       BackendInv, ContentInv
  <1>9. VerdictInv'
    BY DEF ControlTypeOK, ResultTypeOK, WorldTypeOK, Backends, PhaseInv, MutationInv,
       ResultInv, BackendInv, ContentInv, VerdictInv, BeforeCutoverOutcomes,
       BeforeCutoverMeansUntouched, SuccessMeansLegacyServed,
       RollbackVerdictIsTrue, UncancelledFailureServesAgain
  <1> QED BY <1>1, <1>2, <1>3, <1>4, <1>5, <1>6, <1>7, <1>8, <1>9

\* Rollback revalidates the archive before using it.
LEMMA RollbackRevalidateInv == IInv /\ RollbackRevalidate => IInv'
  <1> SUFFICES ASSUME IInv, RollbackRevalidate PROVE IInv' OBVIOUS
  <1> USE DEF RollbackRevalidate, Goto, RollbackFails, RollbackStatus, Return
  <1>1. ControlTypeOK' BY DEF ControlTypeOK, Steps
  <1>2. ResultTypeOK' BY DEF ControlTypeOK, ResultTypeOK, Outcomes, Stages, Rollbacks, Codes
  <1>3. WorldTypeOK'
    BY DEF WorldTypeOK, Contents, Backends, Commands, Archives, Ok, Failed, Live
  <1>4. PhaseInv' BY DEF ControlTypeOK, ResultTypeOK, WorldTypeOK, PhaseInv
  <1>5. MutationInv' BY DEF ControlTypeOK, ResultTypeOK, WorldTypeOK, PhaseInv, MutationInv
  <1>6. ResultInv'
    BY DEF ControlTypeOK, ResultTypeOK, WorldTypeOK, PhaseInv, MutationInv, ResultInv,
       BeforeCutoverOutcomes
  <1>7. BackendInv'
    BY DEF ControlTypeOK, ResultTypeOK, WorldTypeOK, Backends, PhaseInv, BackendInv
  <1>8. ContentInv'
    BY DEF ControlTypeOK, ResultTypeOK, WorldTypeOK, Backends, PhaseInv, MutationInv,
       BackendInv, ContentInv
  <1>9. VerdictInv'
    BY DEF ControlTypeOK, ResultTypeOK, WorldTypeOK, Backends, PhaseInv, MutationInv,
       ResultInv, BackendInv, ContentInv, VerdictInv, BeforeCutoverOutcomes,
       BeforeCutoverMeansUntouched, SuccessMeansLegacyServed,
       RollbackVerdictIsTrue, UncancelledFailureServesAgain
  <1> QED BY <1>1, <1>2, <1>3, <1>4, <1>5, <1>6, <1>7, <1>8, <1>9

\* The last stop changes the backend only.
LEMMA RollbackFinalStopInv == IInv /\ RollbackFinalStop => IInv'
  <1> SUFFICES ASSUME IInv, RollbackFinalStop PROVE IInv' OBVIOUS
  <1> USE DEF RollbackFinalStop, RollbackFails, RollbackStatus, Return
  <1>1. ControlTypeOK' BY DEF ControlTypeOK, Steps
  <1>2. ResultTypeOK' BY DEF ControlTypeOK, ResultTypeOK, Outcomes, Stages, Rollbacks, Codes
  <1>3. WorldTypeOK'
    BY DEF WorldTypeOK, Contents, Backends, Commands, Archives, Ok, Failed, Live
  <1>4. PhaseInv' BY DEF ControlTypeOK, ResultTypeOK, WorldTypeOK, PhaseInv
  <1>5. MutationInv' BY DEF ControlTypeOK, ResultTypeOK, WorldTypeOK, PhaseInv, MutationInv
  <1>6. ResultInv'
    BY DEF ControlTypeOK, ResultTypeOK, WorldTypeOK, PhaseInv, MutationInv, ResultInv,
       BeforeCutoverOutcomes
  <1>7. BackendInv'
    BY DEF ControlTypeOK, ResultTypeOK, WorldTypeOK, Backends, PhaseInv, BackendInv
  <1>8. ContentInv'
    BY DEF ControlTypeOK, ResultTypeOK, WorldTypeOK, Backends, PhaseInv, MutationInv,
       BackendInv, ContentInv
  <1>9. VerdictInv'
    BY DEF ControlTypeOK, ResultTypeOK, WorldTypeOK, Backends, PhaseInv, MutationInv,
       ResultInv, BackendInv, ContentInv, VerdictInv, BeforeCutoverOutcomes,
       BeforeCutoverMeansUntouched, SuccessMeansLegacyServed,
       RollbackVerdictIsTrue, UncancelledFailureServesAgain
  <1> QED BY <1>1, <1>2, <1>3, <1>4, <1>5, <1>6, <1>7, <1>8, <1>9

\* A cancellation changes the context only.
LEMMA CancelInv == IInv /\ Cancel => IInv'
  <1> SUFFICES ASSUME IInv, Cancel PROVE IInv' OBVIOUS
  <1> USE DEF Cancel
  <1>1. ControlTypeOK' BY DEF ControlTypeOK, Steps
  <1>2. ResultTypeOK' BY DEF ControlTypeOK, ResultTypeOK, Outcomes, Stages, Rollbacks, Codes
  <1>3. WorldTypeOK' BY DEF WorldTypeOK, Contents, Backends, Commands, Archives
  <1>4. PhaseInv' BY DEF ControlTypeOK, ResultTypeOK, WorldTypeOK, PhaseInv
  <1>5. MutationInv' BY DEF ControlTypeOK, ResultTypeOK, WorldTypeOK, PhaseInv, MutationInv
  <1>6. ResultInv'
    BY DEF ControlTypeOK, ResultTypeOK, WorldTypeOK, PhaseInv, MutationInv, ResultInv,
       BeforeCutoverOutcomes
  <1>7. BackendInv'
    BY DEF ControlTypeOK, ResultTypeOK, WorldTypeOK, Backends, PhaseInv, BackendInv
  <1>8. ContentInv'
    BY DEF ControlTypeOK, ResultTypeOK, WorldTypeOK, Backends, PhaseInv, MutationInv,
       BackendInv, ContentInv
  <1>9. VerdictInv'
    BY DEF ControlTypeOK, ResultTypeOK, WorldTypeOK, Backends, PhaseInv, MutationInv,
       ResultInv, BackendInv, ContentInv, VerdictInv, BeforeCutoverOutcomes,
       BeforeCutoverMeansUntouched, SuccessMeansLegacyServed,
       RollbackVerdictIsTrue, UncancelledFailureServesAgain
  <1> QED BY <1>1, <1>2, <1>3, <1>4, <1>5, <1>6, <1>7, <1>8, <1>9

\* The recovery timeout changes the context only.
LEMMA ExpireRecoveryInv == IInv /\ ExpireRecovery => IInv'
  <1> SUFFICES ASSUME IInv, ExpireRecovery PROVE IInv' OBVIOUS
  <1> USE DEF ExpireRecovery
  <1>1. ControlTypeOK' BY DEF ControlTypeOK, Steps
  <1>2. ResultTypeOK' BY DEF ControlTypeOK, ResultTypeOK, Outcomes, Stages, Rollbacks, Codes
  <1>3. WorldTypeOK' BY DEF WorldTypeOK, Contents, Backends, Commands, Archives
  <1>4. PhaseInv' BY DEF ControlTypeOK, ResultTypeOK, WorldTypeOK, PhaseInv
  <1>5. MutationInv' BY DEF ControlTypeOK, ResultTypeOK, WorldTypeOK, PhaseInv, MutationInv
  <1>6. ResultInv'
    BY DEF ControlTypeOK, ResultTypeOK, WorldTypeOK, PhaseInv, MutationInv, ResultInv,
       BeforeCutoverOutcomes
  <1>7. BackendInv'
    BY DEF ControlTypeOK, ResultTypeOK, WorldTypeOK, Backends, PhaseInv, BackendInv
  <1>8. ContentInv'
    BY DEF ControlTypeOK, ResultTypeOK, WorldTypeOK, Backends, PhaseInv, MutationInv,
       BackendInv, ContentInv
  <1>9. VerdictInv'
    BY DEF ControlTypeOK, ResultTypeOK, WorldTypeOK, Backends, PhaseInv, MutationInv,
       ResultInv, BackendInv, ContentInv, VerdictInv, BeforeCutoverOutcomes,
       BeforeCutoverMeansUntouched, SuccessMeansLegacyServed,
       RollbackVerdictIsTrue, UncancelledFailureServesAgain
  <1> QED BY <1>1, <1>2, <1>3, <1>4, <1>5, <1>6, <1>7, <1>8, <1>9

\* A passing healthcheck makes a starting backend healthy.
LEMMA HealthcheckPassesInv == IInv /\ HealthcheckPasses => IInv'
  <1> SUFFICES ASSUME IInv, HealthcheckPasses PROVE IInv' OBVIOUS
  <1> USE DEF HealthcheckPasses
  <1>1. ControlTypeOK' BY DEF ControlTypeOK, Steps
  <1>2. ResultTypeOK' BY DEF ControlTypeOK, ResultTypeOK, Outcomes, Stages, Rollbacks, Codes
  <1>3. WorldTypeOK' BY DEF WorldTypeOK, Contents, Backends, Commands, Archives
  <1>4. PhaseInv' BY DEF ControlTypeOK, ResultTypeOK, WorldTypeOK, PhaseInv
  <1>5. MutationInv' BY DEF ControlTypeOK, ResultTypeOK, WorldTypeOK, PhaseInv, MutationInv
  <1>6. ResultInv'
    BY DEF ControlTypeOK, ResultTypeOK, WorldTypeOK, PhaseInv, MutationInv, ResultInv,
       BeforeCutoverOutcomes
  <1>7. BackendInv'
    BY DEF ControlTypeOK, ResultTypeOK, WorldTypeOK, Backends, PhaseInv, BackendInv
  <1>8. ContentInv'
    BY DEF ControlTypeOK, ResultTypeOK, WorldTypeOK, Backends, PhaseInv, MutationInv,
       BackendInv, ContentInv
  <1>9. VerdictInv'
    BY DEF ControlTypeOK, ResultTypeOK, WorldTypeOK, Backends, PhaseInv, MutationInv,
       ResultInv, BackendInv, ContentInv, VerdictInv, BeforeCutoverOutcomes,
       BeforeCutoverMeansUntouched, SuccessMeansLegacyServed,
       RollbackVerdictIsTrue, UncancelledFailureServesAgain
  <1> QED BY <1>1, <1>2, <1>3, <1>4, <1>5, <1>6, <1>7, <1>8, <1>9

\* A write can outdate the archive only when nothing is replaced.
LEMMA BackendWritesInv == IInv /\ BackendWrites => IInv'
  <1> SUFFICES ASSUME IInv, BackendWrites PROVE IInv' OBVIOUS
  <1> USE DEF BackendWrites
  <1>1. ControlTypeOK' BY DEF ControlTypeOK, Steps
  <1>2. ResultTypeOK' BY DEF ControlTypeOK, ResultTypeOK, Outcomes, Stages, Rollbacks, Codes
  <1>3. WorldTypeOK' BY DEF WorldTypeOK, Contents, Backends, Commands, Archives
  <1>4. PhaseInv' BY DEF ControlTypeOK, ResultTypeOK, WorldTypeOK, PhaseInv
  <1>5. MutationInv' BY DEF ControlTypeOK, ResultTypeOK, WorldTypeOK, PhaseInv, MutationInv
  <1>6. ResultInv'
    BY DEF ControlTypeOK, ResultTypeOK, WorldTypeOK, PhaseInv, MutationInv, ResultInv,
       BeforeCutoverOutcomes
  <1>7. BackendInv'
    BY DEF ControlTypeOK, ResultTypeOK, WorldTypeOK, Backends, PhaseInv, BackendInv
  <1>8. ContentInv'
    BY DEF ControlTypeOK, ResultTypeOK, WorldTypeOK, Backends, PhaseInv, MutationInv,
       BackendInv, ContentInv
  <1>9. VerdictInv'
    BY DEF ControlTypeOK, ResultTypeOK, WorldTypeOK, Backends, PhaseInv, MutationInv,
       ResultInv, BackendInv, ContentInv, VerdictInv, BeforeCutoverOutcomes,
       BeforeCutoverMeansUntouched, SuccessMeansLegacyServed,
       RollbackVerdictIsTrue, UncancelledFailureServesAgain
  <1> QED BY <1>1, <1>2, <1>3, <1>4, <1>5, <1>6, <1>7, <1>8, <1>9

\* A late command lands only in a rollback.
LEMMA OrphanLandsInv == IInv /\ OrphanLands => IInv'
  <1> SUFFICES ASSUME IInv, OrphanLands PROVE IInv' OBVIOUS
  <1> USE DEF OrphanLands, OrphanEffects, LoadEffects
  <1>1. ControlTypeOK' BY DEF ControlTypeOK, Steps
  <1>2. ResultTypeOK' BY DEF ResultTypeOK
  <1>3. WorldTypeOK' BY DEF WorldTypeOK, Contents, Backends, Commands, Archives
  <1>4. PhaseInv' BY DEF ControlTypeOK, ResultTypeOK, WorldTypeOK, PhaseInv
  <1>5. MutationInv' BY DEF ControlTypeOK, ResultTypeOK, WorldTypeOK, PhaseInv, MutationInv
  <1>6. ResultInv'
    BY DEF ControlTypeOK, ResultTypeOK, WorldTypeOK, PhaseInv, MutationInv, ResultInv,
       BeforeCutoverOutcomes
  <1>7. BackendInv'
    BY DEF ControlTypeOK, ResultTypeOK, WorldTypeOK, Backends, PhaseInv, BackendInv
  <1>8. ContentInv'
    BY DEF ControlTypeOK, ResultTypeOK, WorldTypeOK, Backends, PhaseInv, MutationInv,
       BackendInv, ContentInv
  <1>9. VerdictInv'
    BY DEF ControlTypeOK, ResultTypeOK, WorldTypeOK, Backends, PhaseInv, MutationInv,
       ResultInv, BackendInv, ContentInv, VerdictInv, BeforeCutoverOutcomes,
       BeforeCutoverMeansUntouched, SuccessMeansLegacyServed,
       RollbackVerdictIsTrue, UncancelledFailureServesAgain
  <1> QED BY <1>1, <1>2, <1>3, <1>4, <1>5, <1>6, <1>7, <1>8, <1>9

-----------------------------------------------------------------------------
\* A step that changes none of the variables changes none of the facts.
LEMMA StutterInv == IInv /\ UNCHANGED vars => IInv'
  <1> SUFFICES ASSUME IInv, UNCHANGED vars PROVE IInv' OBVIOUS
  <1> USE DEF vars
  <1>1. TypeOK' BY DEF ControlTypeOK, ResultTypeOK, WorldTypeOK
  <1>2. PhaseInv' /\ MutationInv' BY DEF PhaseInv, MutationInv
  <1>3. ResultInv' /\ BackendInv' /\ ContentInv' BY DEF ResultInv, BackendInv, ContentInv
  <1>4. VerdictInv'
    BY DEF VerdictInv, BeforeCutoverMeansUntouched, SuccessMeansLegacyServed,
       RollbackVerdictIsTrue, UncancelledFailureServesAgain
  <1> QED BY <1>1, <1>2, <1>3, <1>4

\* The initial state, with the backend healthy and nothing archived, satisfies it.
LEMMA InitInv == Init => IInv
  <1> SUFFICES ASSUME Init PROVE IInv OBVIOUS
  <1> USE DEF Init
  <1>1. TypeOK
    BY DEF ControlTypeOK, ResultTypeOK, WorldTypeOK, Steps, Outcomes, Stages, Rollbacks, Codes,
       Contents, Backends, Commands, Archives
  <1>2. PhaseInv /\ MutationInv BY DEF PhaseInv, MutationInv
  <1>3. ResultInv /\ BackendInv /\ ContentInv BY DEF ResultInv, BackendInv, ContentInv
  <1>4. VerdictInv
    BY DEF VerdictInv, BeforeCutoverMeansUntouched, SuccessMeansLegacyServed,
       RollbackVerdictIsTrue, UncancelledFailureServesAgain
  <1> QED BY <1>1, <1>2, <1>3, <1>4

\* The invariant is inductive: every call's return and every event around it keeps it.
LEMMA NextInv == IInv /\ [Next]_vars => IInv'
  <1> SUFFICES ASSUME IInv, [Next]_vars PROVE IInv' OBVIOUS
  <1> HIDE DEF IInv
  <1>1. CASE Run
    BY <1>1, GateInv, WaitInv, ProveIdentityInv, StopBackendInv, ReadTargetDatabaseInv,
       RevalidateLegacyInv, CheckPostgresInv, StageTargetDumpInv,
       CheckTargetStagingInv, ValidateTargetDumpInv, PublishTargetRollbackInv,
       TerminateSessionsInv, DropDatabaseInv, CreateDatabaseInv, RestoreArchiveInv,
       ValidateDatabaseInv, ProveIdentityAgainInv, StartBackendInv, WaitHealthyInv,
       RollbackPostgresInv, RollbackStopInv, RollbackProofInv, RollbackRevalidateInv,
       RollbackFinalStopInv
       DEF Run
  <1>2. CASE Environment
    BY <1>2, CancelInv, ExpireRecoveryInv, HealthcheckPassesInv, BackendWritesInv, OrphanLandsInv
       DEF Environment
  <1>3. CASE UNCHANGED vars BY <1>3, StutterInv
  <1> QED BY <1>1, <1>2, <1>3 DEF Next

\* The inductive invariant of the coordinator holds in every run.
THEOREM Invariance == Spec => []IInv
  <1> HIDE DEF IInv
  <1> QED BY InitInv, NextInv, PTL DEF Spec

\* Every variable keeps its type, whichever call fails or is cut short.
THEOREM TypeCorrect == Spec => []TypeOK
  <1>1. IInv => TypeOK OBVIOUS
  <1> HIDE DEF IInv, TypeOK
  <1> QED BY <1>1, Invariance, PTL

\* A before-cutover result is true of the database: it was not touched.
THEOREM BeforeCutoverIsTrue == Spec => []BeforeCutoverMeansUntouched
  <1>1. IInv => BeforeCutoverMeansUntouched BY DEF VerdictInv
  <1> HIDE DEF IInv
  <1> QED BY <1>1, Invariance, PTL

\* A success is true of the database, of the backend and of the credential directories.
THEOREM SuccessIsTrue == Spec => []SuccessMeansLegacyServed
  <1>1. IInv => SuccessMeansLegacyServed BY DEF VerdictInv
  <1> HIDE DEF IInv
  <1> QED BY <1>1, Invariance, PTL

\* Whatever a rollback reports, a backend it leaves running serves whole data, and the data
\* its report stands for.
THEOREM RollbackIsTrue == Spec => []RollbackVerdictIsTrue
  <1>1. IInv => RollbackVerdictIsTrue BY DEF VerdictInv
  <1> HIDE DEF IInv
  <1> QED BY <1>1, Invariance, PTL

\* With a Compose that does not list what has stopped, as the program's, no rollback gets
\* past its proof: none reloads the archive, and none succeeds.
THEOREM UnlistedBackendStopsRollback ==
  ASSUME ~PsListsStopped
  PROVE  Spec => []RollbackStopsShort
  <1>1. Init => RollbackStopsShort BY DEF Init, RollbackStopsShort
  <1>2. IInv /\ RollbackStopsShort /\ [Next]_vars => RollbackStopsShort'
    <2> SUFFICES ASSUME IInv, RollbackStopsShort, [Next]_vars PROVE RollbackStopsShort' OBVIOUS
    <2> USE DEF RollbackStopsShort, Unproved
    <2>1. CASE RollbackPostgres \/ RollbackStop \/ RollbackProof
      BY <2>1 DEF RollbackPostgres, RollbackStop, RollbackProof, Goto, RollbackFails,
         RollbackStatus, Return, ResultTypeOK, ResultInv
    <2>2. CASE ProveIdentityAgain \/ StartBackend \/ WaitHealthy
      BY <2>2 DEF ProveIdentityAgain, StartBackend, WaitHealthy, Rollback, Goto, Return,
         BackendUnavailable, BackendHealthy, ReturnBeforeCutover, ControlTypeOK, ResultInv
    <2>3. ASSUME NEW m, pc # "done", phase # "rollback", ReplaceFails(m)
          PROVE  RollbackStopsShort'
      BY <2>3 DEF ReplaceFails, Rollback, RecoverBeforeCutover, ResultInv, ControlTypeOK
    <2>4. CASE TerminateSessions
      BY <2>4, <2>3 DEF TerminateSessions, Goto
    <2>5. CASE DropDatabase
      BY <2>5, <2>3 DEF DropDatabase
    <2>6. CASE CreateDatabase
      BY <2>6, <2>3 DEF CreateDatabase, Goto
    <2>7. CASE RestoreArchive
      BY <2>7, <2>3 DEF RestoreArchive, Goto
    <2>8. CASE ValidateDatabase
      BY <2>8, <2>3 DEF ValidateDatabase, Goto
    <2>9. CASE RollbackRevalidate \/ RollbackFinalStop
      BY <2>9 DEF RollbackRevalidate, RollbackFinalStop, ControlTypeOK, PhaseInv
    <2>10. CASE Gate \/ Wait \/ ProveIdentity \/ StopBackend
      BY <2>10 DEF Gate, Wait, ProveIdentity, StopBackend, Goto, Return, ReturnBeforeCutover,
         PhaseInv
    <2>11. CASE ReadTargetDatabase \/ RevalidateLegacy \/ CheckPostgres
      BY <2>11 DEF ReadTargetDatabase, RevalidateLegacy, CheckPostgres, Goto,
         RecoverBeforeCutover
    <2>12. CASE StageTargetDump \/ CheckTargetStaging \/ ValidateTargetDump
               \/ PublishTargetRollback
      BY <2>12 DEF StageTargetDump, CheckTargetStaging, ValidateTargetDump,
         PublishTargetRollback, TargetBackupRefused, Goto, RecoverBeforeCutover
    <2>13. CASE Environment \/ UNCHANGED vars
      BY <2>13 DEF Environment, Cancel, ExpireRecovery, HealthcheckPasses, BackendWrites,
         OrphanLands, vars
    <2> QED
      BY <2>1, <2>2, <2>4, <2>5, <2>6, <2>7, <2>8, <2>9, <2>10, <2>11, <2>12, <2>13
      DEF Next, Run
  <1> HIDE DEF IInv
  <1> QED BY <1>1, <1>2, Invariance, PTL DEF Spec

\* No instant of any run has the installed data gone without an up-to-date archive.
THEOREM NothingLost == Spec => []NothingDroppedUnarchived
  <1>1. IInv => NothingDroppedUnarchived
    BY DEF NothingDroppedUnarchived, MutationInv, ContentInv
  <1> HIDE DEF IInv
  <1> QED BY <1>1, Invariance, PTL

\* An uncancelled failure before the cutover leaves the backend in service unless the
\* result says otherwise.
THEOREM FailureServesAgain == Spec => []UncancelledFailureServesAgain
  <1>1. IInv => UncancelledFailureServesAgain BY DEF VerdictInv
  <1> HIDE DEF IInv
  <1> QED BY <1>1, Invariance, PTL

-----------------------------------------------------------------------------
(* Action properties, and the refinement.                                   *)

\* Only the replacement commands and their orphans write the database, and the
\* coordinator issues them with the backend stopped.
THEOREM QuietCutoverHolds == Spec => QuietCutover
  <1>1. IInv /\ [Next]_vars
          => [db' # db /\ ~orphaned => backend = "stopped" /\ backend' = "stopped"]_vars
    <2> SUFFICES ASSUME IInv, Next, db' # db, ~orphaned
                 PROVE   backend = "stopped" /\ backend' = "stopped"
      BY DEF vars
    <2>1. CASE DropDatabase \/ CreateDatabase \/ RestoreArchive
      BY <2>1 DEF DropDatabase, CreateDatabase, RestoreArchive, ControlTypeOK, PhaseInv, BackendInv
    <2>2. CASE OrphanLands BY <2>2 DEF OrphanLands, MutationInv
    <2> QED
      BY <2>1, <2>2 DEF Next, Run, Environment, Gate, Wait, ProveIdentity, StopBackend,
         ReadTargetDatabase, RevalidateLegacy, CheckPostgres, StageTargetDump,
         CheckTargetStaging, ValidateTargetDump, PublishTargetRollback, TerminateSessions,
         ValidateDatabase, ProveIdentityAgain, StartBackend, WaitHealthy, RollbackPostgres,
         RollbackStop, RollbackProof, RollbackRevalidate, RollbackFinalStop, Cancel,
         ExpireRecovery, HealthcheckPasses, BackendWrites
  <1> HIDE DEF IInv
  <1> QED BY <1>1, Invariance, PTL DEF Spec, QuietCutover

\* A published backup is never withdrawn, and only a write to the installed database can
\* outdate it.
THEOREM BackupPreservedHolds == Spec => BackupPreserved
  <1>1. IInv /\ [Next]_vars
          => [published => published' /\ (archive' # archive => db = "installed")]_vars
    <2> SUFFICES ASSUME IInv, Next, published
                 PROVE  published' /\ (archive' # archive => db = "installed")
      BY DEF vars
    <2>1. CASE StageTargetDump \/ ValidateTargetDump \/ PublishTargetRollback
      BY <2>1 DEF StageTargetDump, ValidateTargetDump, PublishTargetRollback, ControlTypeOK,
         PhaseInv, MutationInv, ContentInv
    <2>2. CASE BackendWrites BY <2>2 DEF BackendWrites
    <2> QED
      BY <2>1, <2>2 DEF Next, Run, Environment, Gate, Wait, ProveIdentity, StopBackend,
         ReadTargetDatabase, RevalidateLegacy, CheckPostgres, CheckTargetStaging,
         TerminateSessions, DropDatabase, CreateDatabase, RestoreArchive,
         ValidateDatabase, ProveIdentityAgain, StartBackend, WaitHealthy, RollbackPostgres,
         RollbackStop, RollbackProof, RollbackRevalidate, RollbackFinalStop, Cancel,
         ExpireRecovery, HealthcheckPasses, OrphanLands
  <1> HIDE DEF IInv
  <1> QED BY <1>1, Invariance, PTL DEF Spec, BackupPreserved

\* What a step of Run may do to the part of the state that DatabaseCutover sees: publish
\* only before the cutover, raise the mutation flag only over a published archive, change
\* the database or let a command loose on it only with the flag up, and do either while
\* returning only from a failed rollback.
CutoverStep ==
    /\ pc # "done"
    /\ published' # published => published' /\ ~mutated /\ pc' # "done"
                                /\ UNCHANGED <<db, mutated, orphaned>>
    /\ mutated' # mutated => mutated' /\ published /\ pc' # "done" /\ db' \in {db, "absent"}
    /\ orphaned => orphaned'
    /\ <<db, orphaned>>' # <<db, orphaned>> => mutated'
    /\ pc' = "done" /\ <<db, orphaned>>' # <<db, orphaned>> => phase' = "rollback" /\ rollback' # "Succeeded"

\* The calls that touch neither the database nor the archive are such steps.
LEMMA CallIsCutoverStep ==
  ASSUME IInv,
         \/ Gate \/ Wait \/ ProveIdentity \/ StopBackend \/ ReadTargetDatabase
         \/ RevalidateLegacy \/ CheckPostgres \/ StageTargetDump \/ CheckTargetStaging
         \/ ValidateTargetDump \/ ProveIdentityAgain \/ StartBackend \/ WaitHealthy
         \/ RollbackPostgres \/ RollbackStop \/ RollbackProof \/ RollbackRevalidate
         \/ RollbackFinalStop
  PROVE  CutoverStep
  <1>1. pc # "done" /\ UNCHANGED <<db, orphaned, published>>
    BY DEF Gate, Wait, ProveIdentity, StopBackend, ReadTargetDatabase, RevalidateLegacy,
       CheckPostgres, StageTargetDump, CheckTargetStaging, ValidateTargetDump,
       ProveIdentityAgain, StartBackend, WaitHealthy, RollbackPostgres, RollbackStop,
       RollbackProof, RollbackRevalidate, RollbackFinalStop
  <1>2. UNCHANGED mutated
    <2> USE DEF Goto, Return, ReturnBeforeCutover, RecoverBeforeCutover, RollbackFails
    <2>1. CASE Gate \/ Wait \/ ProveIdentity \/ StopBackend
      BY <2>1 DEF Gate, Wait, ProveIdentity, StopBackend
    <2>2. CASE ReadTargetDatabase \/ RevalidateLegacy \/ CheckPostgres
      BY <2>2 DEF ReadTargetDatabase, RevalidateLegacy, CheckPostgres
    <2>3. CASE StageTargetDump \/ CheckTargetStaging \/ ValidateTargetDump
      BY <2>3 DEF StageTargetDump, CheckTargetStaging, ValidateTargetDump, TargetBackupRefused
    <2>4. CASE ProveIdentityAgain BY <2>4 DEF ProveIdentityAgain
    <2>5. CASE StartBackend
      BY <2>5 DEF StartBackend, BackendUnavailable, ControlTypeOK
    <2>6. CASE WaitHealthy
      BY <2>6 DEF WaitHealthy, BackendUnavailable, BackendHealthy, ControlTypeOK
    <2>7. CASE RollbackPostgres \/ RollbackStop \/ RollbackProof
      BY <2>7 DEF RollbackPostgres, RollbackStop, RollbackProof
    <2>8. CASE RollbackRevalidate \/ RollbackFinalStop
      BY <2>8 DEF RollbackRevalidate, RollbackFinalStop
    <2> QED BY <2>1, <2>2, <2>3, <2>4, <2>5, <2>6, <2>7, <2>8
  <1> QED BY <1>1, <1>2 DEF CutoverStep

\* So are the publication and the five replacement commands.
LEMMA ReplacementIsCutoverStep ==
  ASSUME IInv,
         \/ PublishTargetRollback \/ TerminateSessions \/ DropDatabase \/ CreateDatabase
         \/ RestoreArchive \/ ValidateDatabase
  PROVE  CutoverStep
  <1> USE DEF CutoverStep, Goto, Return, RollbackFails, Rollback, RecoverBeforeCutover
  <1>1. CASE PublishTargetRollback
    BY <1>1 DEF PublishTargetRollback, TargetBackupRefused, ControlTypeOK, PhaseInv, MutationInv,
       WorldTypeOK
  <1>2. CASE TerminateSessions \/ ValidateDatabase
    BY <1>2 DEF TerminateSessions, ValidateDatabase, ReplaceFails
  <1>3. CASE DropDatabase
    <2>1. pc = "drop" /\ published /\ UNCHANGED published /\ phase # "recovery"
      BY <1>3 DEF DropDatabase, MutationInv, PhaseInv
    <2>2. CASE ReplaceFails(mutated) /\ UNCHANGED <<db, orphaned>>
      BY <2>1, <2>2 DEF ReplaceFails
    <2>3. CASE ReplaceFails(TRUE) /\ db' \in {db, "absent"} /\ phase = "rollback"
               /\ (orphaned => orphaned')
      BY <2>1, <2>3 DEF ReplaceFails, RollbackStatus, MutationInv
    <2>4. CASE ReplaceFails(TRUE) /\ db' \in {db, "absent"} /\ phase # "rollback"
               /\ (orphaned => orphaned')
      BY <2>1, <2>4 DEF ReplaceFails
    <2>5. CASE pc' = "create" /\ mutated' = TRUE /\ db' = "absent" /\ UNCHANGED orphaned
      BY <2>1, <2>5
    <2>6. Ambiguous("drop", {db, "absent"}) => db' \in {db, "absent"} /\ (orphaned => orphaned')
      BY DEF Ambiguous
    <2> QED BY <1>3, <2>1, <2>2, <2>3, <2>4, <2>5, <2>6 DEF DropDatabase
  <1>4. CASE CreateDatabase \/ RestoreArchive
    <2>1. pc \in {"create", "load"} /\ mutated /\ UNCHANGED published /\ (orphaned => orphaned')
      BY <1>4 DEF CreateDatabase, RestoreArchive, ControlTypeOK, MutationInv, PhaseInv, Ambiguous
    <2>2. CASE ReplaceFails(mutated) BY <2>1, <2>2 DEF ReplaceFails, RollbackStatus, ResultTypeOK
    <2>3. CASE Goto("load") \/ Goto("validate") BY <2>1, <2>3
    <2> QED BY <1>4, <2>2, <2>3 DEF CreateDatabase, RestoreArchive
  <1> QED BY <1>1, <1>2, <1>3, <1>4

\* Such a step, between two states of the invariant, is a step of DatabaseCutover.
LEMMA CutoverStepRefines ==
  ASSUME IInv, IInv', CutoverStep
  PROVE  [Cutover!Next]_(Cutover!vars)
  <1> USE DEF CutoverStep, AbstractContent, AbstractVerdict, Cutover!vars, Cutover!Next,
              Cutover!MayLetLoose
  <1>1. CASE pc' # "done" /\ UNCHANGED <<db, orphaned, published, mutated>>
    BY <1>1
  <1>2. CASE published' # published
    BY <1>2 DEF Cutover!Archive, WorldTypeOK
  <1>3. CASE mutated' # mutated
    BY <1>3 DEF Cutover!Touch, WorldTypeOK, ResultTypeOK
  <1>4. CASE pc' # "done" /\ <<db, orphaned>>' # <<db, orphaned>> /\ UNCHANGED <<published, mutated>>
    BY <1>4 DEF WorldTypeOK, Cutover!Change, Cutover!Contents
  <1>5. CASE pc' = "done" /\ <<db, orphaned>>' # <<db, orphaned>>
    <2>1. outcome' = "PartialCutover" BY <1>5 DEF ResultInv
    <2>2. mutated' /\ mutated = mutated' BY <1>5
    <2>3. mutated /\ published BY <2>2 DEF MutationInv
    <2> QED
      BY <1>5, <2>1, <2>2, <2>3 DEF Cutover!ConcludePartial, Cutover!Contents,
         BeforeCutoverOutcomes, WorldTypeOK
  <1>6. CASE pc' = "done" /\ UNCHANGED <<db, orphaned>>
    <2>1. UNCHANGED <<db, orphaned, published, mutated>> /\ ~Done BY <1>6
    <2>2. CASE outcome' = "Succeeded"
      <3>1. db' = "legacy" /\ mutated' /\ ~orphaned'
        BY <1>6, <2>2 DEF ControlTypeOK, ResultInv, MutationInv, VerdictInv,
           BeforeCutoverOutcomes, SuccessMeansLegacyServed
      <3> QED BY <1>6, <2>1, <2>2, <3>1 DEF Cutover!Conclude, Cutover!Justified, Cutover!Verdicts
    <2>3. CASE outcome' \in BeforeCutoverOutcomes
      <3>1. db' = "installed" /\ ~mutated'
        BY <1>6, <2>3 DEF VerdictInv, BeforeCutoverMeansUntouched
      <3> QED
        BY <1>6, <2>1, <2>3, <3>1 DEF Cutover!Conclude, Cutover!Justified, Cutover!Verdicts,
           BeforeCutoverOutcomes
    <2>4. CASE outcome' = "PartialCutover"
      <3>1. phase' = "rollback" /\ mutated' /\ published'
        BY <1>6, <2>4 DEF ControlTypeOK, ResultInv, MutationInv, BeforeCutoverOutcomes
      <3>2. CASE rollback' = "Succeeded"
        <4>1. db' = "installed" \/ orphaned'
          BY <1>6, <3>2 DEF VerdictInv, RollbackVerdictIsTrue
        <4> QED
          BY <1>6, <2>1, <2>4, <3>1, <3>2, <4>1 DEF Cutover!Conclude, Cutover!Justified,
             Cutover!Verdicts, BeforeCutoverOutcomes
      <3>3. CASE rollback' # "Succeeded"
        BY <1>6, <2>1, <2>4, <3>1, <3>3 DEF Cutover!ConcludePartial, Cutover!Contents,
           BeforeCutoverOutcomes
      <3> QED BY <3>2, <3>3
    <2> QED BY <2>2, <2>3, <2>4 DEF ResultTypeOK, Outcomes, BeforeCutoverOutcomes
  <1> QED BY <1>1, <1>2, <1>3, <1>4, <1>5, <1>6

\* The coordinator implements the abstract cutover: one justified verdict, and the
\* database unchanged after it unless a command was let loose.
THEOREM RestoreImplementsCutover == Spec => ImplementsCutover
  <1>1. Init => Cutover!Init
    BY DEF Init, Cutover!Init, AbstractContent, AbstractVerdict
  <1>2. IInv /\ IInv' /\ [Next]_vars => [Cutover!Next]_(Cutover!vars)
    <2> SUFFICES ASSUME IInv, IInv', [Next]_vars PROVE [Cutover!Next]_(Cutover!vars) OBVIOUS
    <2>1. CASE Run
      <3> HIDE DEF IInv
      <3> QED BY <2>1, CallIsCutoverStep, ReplacementIsCutoverStep, CutoverStepRefines DEF Run
    <2>2. CASE Environment
      <3>1. UNCHANGED <<pc, outcome, rollback, mutated, orphaned, published>>
        BY <2>2 DEF Environment, Cancel, ExpireRecovery, HealthcheckPasses, BackendWrites,
           OrphanLands
      <3>2. CASE UNCHANGED db
        BY <3>1, <3>2 DEF AbstractContent, AbstractVerdict, Cutover!vars, BeforeCutoverOutcomes
      <3>3. CASE OrphanLands
        <4>1. orphaned /\ mutated
          BY <3>3 DEF OrphanLands, MutationInv, ControlTypeOK, WorldTypeOK
        <4> QED
          BY <3>1, <4>1 DEF AbstractContent, AbstractVerdict, BeforeCutoverOutcomes,
             Cutover!Next, Cutover!Change, Cutover!MayLetLoose, Cutover!Contents
      <3> QED
        BY <2>2, <3>2, <3>3 DEF Environment, Cancel, ExpireRecovery, HealthcheckPasses,
           BackendWrites
    <2>3. CASE UNCHANGED vars
      BY <2>3 DEF vars, AbstractContent, AbstractVerdict, Cutover!vars, BeforeCutoverOutcomes
    <2> QED BY <2>1, <2>2, <2>3 DEF Next
  <1> HIDE DEF IInv
  <1> QED BY <1>1, <1>2, Invariance, PTL DEF Spec, ImplementsCutover, Cutover!Spec

=============================================================================
