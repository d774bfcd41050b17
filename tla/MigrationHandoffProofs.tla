------------------------ MODULE MigrationHandoffProofs ------------------------
(***************************************************************************)
(* Proofs about the pre-install migration handoff and the PM2 quiescence   *)
(* under it, for any services, incarnations, disturbances and completions. *)
(***************************************************************************)
EXTENDS MigrationHandoff, TLAPS

\* The steps of Begin and of CompleteFailure that wait for a Recover.
Recovering == {"undoQuiesce", "undoPM2", "restorePM2"}

\* A call of the quiescer is in flight only where its caller waits for it, and the snapshot
\* of one of its steps does not outlive that step.
CallInv ==
    /\ qpc = "idle" => hpc \in {"revalidate", "failed"}
    /\ qpc \in QuiesceSteps => hpc = "quiescing"
    /\ qpc \in RecoverSteps => hpc \in Recovering
    /\ invRead => qpc \in SnapshotSteps
    /\ invRead /\ disturbed = 0 => inv = run

\* Undisturbed, nobody but a service itself holds its port.
WorldInv ==
    /\ \A s \in Services : run[s] \in {0, last[s]}
    /\ disturbed = 0 => \A s \in Services : socket[s] # Foreign

\* From the start of Begin until the lease is consumed by a failure or a recovery begins.
Quiet == {"quiescing", "dockerStop", "dockerRemove", "applied", "undoContainer", "leased",
          "restoreContainer"}

\* What the quiescer has stopped stays stopped until a recovery begins; where the stop was
\* verified, the port stays free as well.
QuietInv ==
    disturbed = 0 /\ hpc \in Quiet =>
        /\ \A s \in acked : run[s] = 0
        /\ \A s \in verified : socket[s] = 0

\* The evidence of a quiescence grows from nothing; past it, it is complete.
EvidenceInv ==
    /\ hpc = "revalidate" \/ qpc \in {"idle", "initial", "noopFinal"} => acked = {}
    /\ qpc \in QuiesceSteps \/ hpc = "revalidate" => ~noop
    /\ noop => acked = {}
    /\ hpc \in Quiet \ {"quiescing"} => CompleteQuiescence

\* Nothing is restored before a recovery, what a recovery has restored keeps serving, and
\* the code is that of the call that returned.
RestoredInv ==
    /\ hpc \in Quiet \union {"revalidate"} => restored = {} /\ qcode \notin RecoverCodes
    /\ disturbed = 0 => \A s \in restored : Serving(s)
    /\ hpc \in Recovering /\ qpc = "returned" => qcode \in RecoverCodes

\* The service that is about to be started was seen stopped, with its port free.
StartInv ==
    qpc = "recoverStart" /\ disturbed = 0 =>
        \A s \in Services : IsLast(s, Targets) => run[s] = 0

\* A verified recovery has restored everything that was acknowledged, and no other follows.
VerifiedInv ==
    qcode = "pm2-recovery-verified" =>
        /\ acked \subseteq restored /\ qpc = "returned"
        /\ hpc \in Recovering \union {"failed", "completed"}

\* What has become of the container, and of a Begin that failed.
ContainerInv ==
    /\ hpc \in {"revalidate", "quiescing", "undoQuiesce", "failedLeased"} => container = "running"
    /\ hpc \in {"dockerRemove", "applied", "leased"} => container # "running"
    /\ hpc = "restorePM2" /\ containerOK => container = "running"
    /\ hpc = "failed" /\ reason \in {"backup", "quiescence"} =>
          container = "running" /\ acked \subseteq restored
    /\ hpc \in {"undoContainer", "undoPM2"} => reason = "container"
    /\ lease = "pm2Only" /\ hpc # "completed" => container = "running"

\* The lease, who consumed it, and what its completions report.
LeaseInv ==
    /\ hpc \in BeginSteps \union {"failed"} => lease = "none"
    /\ hpc = "leased" => lease = "full"
    /\ lease = "full" /\ ~consumed => hpc = "leased"
    /\ hpc = "failedLeased" => lease = "pm2Only"
    /\ lease = "pm2Only" /\ ~consumed => hpc = "failedLeased"
    /\ lease = "none" => ~consumed
    /\ consumed /\ winner = "failure" <=> hpc \in CompletionSteps \union {"completed"}
    /\ "pm2-recovery-verified" \in reports =>
          hpc = "completed" /\ acked \subseteq restored /\ container = "running"

\* The inductive invariant.
IInv == /\ TypeOK /\ CallInv /\ WorldInv /\ QuietInv /\ EvidenceInv /\ RestoredInv
        /\ StartInv /\ VerifiedInv /\ ContainerInv /\ LeaseInv


-----------------------------------------------------------------------------
(* Lemmas: each of the actions.                                            *)

USE DEF world, snapshot, evidence, pm2vars, handoff, leaseVars, vars, QuiesceSteps,
        RecoverSteps, SnapshotSteps, QuiesceCodes, RecoverCodes, BeginSteps,
        BeginReturned, CompletionSteps, Reports, Foreign, Recovering, Quiet,
        EndSnapshot, ReturnCode, CallQuiesce, CallRecover, Fails

\* The end of a snapshot, and a call, keep the types.
LEMMA EndSnapshotTypes ==
  ASSUME EndSnapshot
  PROVE  invRead' = FALSE /\ inv' \in [Services -> 0..MaxGen]
  BY MaxGenAssumption

\* Calling the quiescer, or leaving it alone, keeps its types.
LEMMA CallTypes ==
  ASSUME QuiescerTypeOK, UNCHANGED pm2vars \/ CallQuiesce \/ CallRecover
  PROVE  QuiescerTypeOK'
  <1>1. CASE UNCHANGED pm2vars
    BY <1>1 DEF QuiescerTypeOK
  <1>2. CASE CallQuiesce
    BY <1>2 DEF QuiescerTypeOK
  <1>3. CASE CallRecover
    <2>1. qpc' \in {"returned", "recoverBefore"} /\ qcode' \in {qcode} \union RecoverCodes
      BY <1>3
    <2> QED
      BY <1>3, <2>1 DEF QuiescerTypeOK
  <1> QED
    BY <1>1, <1>2, <1>3

\* Begin calls Quiesce, or fails before it has touched anything.
LEMMA RevalidateInv ==
  ASSUME IInv, Revalidate
  PROVE  IInv'
  <1> USE DEF IInv, TypeOK, Revalidate
  <1>1. QuiescerTypeOK'
    BY DEF QuiescerTypeOK
  <1>2. HandoffTypeOK'
    BY CompletionsAssumption DEF HandoffTypeOK
  <1>3. CallInv'
    BY DEF CallInv, WorldTypeOK
  <1>4. QuietInv'
    BY DEF QuiescerTypeOK, EvidenceInv, QuietInv
  <1>5. EvidenceInv'
    BY DEF EvidenceInv
  <1>6. RestoredInv'
    BY DEF WorldTypeOK, QuiescerTypeOK, CallInv, RestoredInv, VerifiedInv, LeaseInv, Serving
  <1>7. StartInv'
    BY DEF WorldTypeOK, CallInv, StartInv, IsLast, Targets
  <1>8. VerifiedInv'
    BY DEF QuiescerTypeOK, CallInv, RestoredInv, EvidenceInv, VerifiedInv, LeaseInv
  <1>9. ContainerInv'
    BY DEF EvidenceInv, ContainerInv, LeaseInv
  <1>10. LeaseInv'
    BY DEF HandoffTypeOK, CallInv, VerifiedInv, LeaseInv, ContainerInv, RecoveryCode
  <1>11. WorldTypeOK' /\ WorldInv'
    BY DEF WorldInv, WorldTypeOK
  <1> QED
    BY <1>1, <1>2, <1>3, <1>4, <1>5, <1>6, <1>7, <1>8, <1>9, <1>10, <1>11

\* Begin goes on only with complete evidence; what was stopped is recovered otherwise.
LEMMA QuiesceReturnsInv ==
  ASSUME IInv, QuiesceReturns
  PROVE  IInv'
  <1> USE DEF IInv, TypeOK, QuiesceReturns, CompleteQuiescence, Captured
  <1>1. QuiescerTypeOK'
    BY DEF QuiescerTypeOK
  <1>2. HandoffTypeOK'
    BY CompletionsAssumption DEF HandoffTypeOK
  <1>3. CallInv'
    BY DEF CallInv, WorldTypeOK
  <1>4. QuietInv'
    BY DEF WorldTypeOK, QuiescerTypeOK, CallInv, QuietInv
  <1>5. EvidenceInv'
    BY DEF QuiescerTypeOK, CallInv, EvidenceInv, CompleteQuiescence, Captured
  <1>6. RestoredInv'
    BY DEF WorldTypeOK, QuiescerTypeOK, CallInv, RestoredInv, VerifiedInv, LeaseInv, Serving
  <1>7. StartInv'
    BY DEF WorldTypeOK, CallInv, StartInv, IsLast, Targets
  <1>8. VerifiedInv'
    BY DEF QuiescerTypeOK, CallInv, RestoredInv, EvidenceInv, VerifiedInv, LeaseInv
  <1>9. ContainerInv'
    BY DEF HandoffTypeOK, CallInv, VerifiedInv, ContainerInv, LeaseInv
  <1>10. LeaseInv'
    BY DEF HandoffTypeOK, CallInv, VerifiedInv, LeaseInv, ContainerInv, RecoveryCode
  <1>11. WorldTypeOK' /\ WorldInv'
    BY DEF WorldInv, WorldTypeOK
  <1> QED
    BY <1>1, <1>2, <1>3, <1>4, <1>5, <1>6, <1>7, <1>8, <1>9, <1>10, <1>11

\* A verified recovery has restored everything; an unproven one leaves a lease.
LEMMA UndoQuiesceReturnsInv ==
  ASSUME IInv, UndoQuiesceReturns
  PROVE  IInv'
  <1> USE DEF IInv, TypeOK, UndoQuiesceReturns
  <1>1. HandoffTypeOK'
    BY CompletionsAssumption DEF HandoffTypeOK
  <1>2. CallInv'
    BY DEF CallInv, WorldTypeOK
  <1>3. QuietInv'
    BY DEF WorldTypeOK, QuiescerTypeOK, CallInv, QuietInv
  <1>4. EvidenceInv'
    BY DEF QuiescerTypeOK, CallInv, EvidenceInv, CompleteQuiescence, Captured
  <1>5. RestoredInv'
    BY DEF WorldTypeOK, QuiescerTypeOK, CallInv, RestoredInv, VerifiedInv, LeaseInv, Serving
  <1>6. VerifiedInv'
    BY DEF QuiescerTypeOK, CallInv, RestoredInv, EvidenceInv, VerifiedInv, LeaseInv
  <1>7. ContainerInv'
    BY DEF HandoffTypeOK, CallInv, VerifiedInv, ContainerInv, LeaseInv
  <1>8. LeaseInv'
    BY DEF HandoffTypeOK, CallInv, VerifiedInv, LeaseInv, ContainerInv, RecoveryCode
  <1>9. WorldTypeOK' /\ QuiescerTypeOK' /\ WorldInv' /\ StartInv'
    BY DEF IsLast, QuiescerTypeOK, StartInv, Targets, WorldInv, WorldTypeOK
  <1> QED
    BY <1>1, <1>2, <1>3, <1>4, <1>5, <1>6, <1>7, <1>8, <1>9

\* The container stops, or the command fails and may have stopped it.
LEMMA DockerStopInv ==
  ASSUME IInv, DockerStop
  PROVE  IInv'
  <1> USE DEF IInv, TypeOK, DockerStop, ApplyFails
  <1>1. QuiescerTypeOK'
    BY DEF QuiescerTypeOK
  <1>2. HandoffTypeOK'
    BY CompletionsAssumption DEF HandoffTypeOK
  <1>3. CallInv'
    BY DEF CallInv, WorldTypeOK
  <1>4. QuietInv'
    BY DEF WorldTypeOK, QuiescerTypeOK, CallInv, QuietInv
  <1>5. EvidenceInv'
    BY DEF QuiescerTypeOK, CallInv, EvidenceInv, CompleteQuiescence, Captured
  <1>6. RestoredInv'
    BY DEF WorldTypeOK, QuiescerTypeOK, CallInv, RestoredInv, VerifiedInv, LeaseInv, Serving
  <1>7. StartInv'
    BY DEF WorldTypeOK, CallInv, StartInv, IsLast, Targets
  <1>8. VerifiedInv'
    BY DEF QuiescerTypeOK, CallInv, RestoredInv, EvidenceInv, VerifiedInv, LeaseInv
  <1>9. ContainerInv'
    BY DEF HandoffTypeOK, CallInv, VerifiedInv, ContainerInv, LeaseInv
  <1>10. LeaseInv'
    BY DEF HandoffTypeOK, CallInv, VerifiedInv, LeaseInv, ContainerInv, RecoveryCode
  <1>11. WorldTypeOK' /\ WorldInv'
    BY DEF WorldInv, WorldTypeOK
  <1> QED
    BY <1>1, <1>2, <1>3, <1>4, <1>5, <1>6, <1>7, <1>8, <1>9, <1>10, <1>11

\* The container is removed, or the command fails and may have removed it.
LEMMA DockerRemoveInv ==
  ASSUME IInv, DockerRemove
  PROVE  IInv'
  <1> USE DEF IInv, TypeOK, DockerRemove, ApplyFails
  <1>1. QuiescerTypeOK'
    <2>1. UNCHANGED pm2vars \/ CallRecover
      OBVIOUS
    <2> QED
      BY <2>1, CallTypes
  <1>2. HandoffTypeOK'
    BY CompletionsAssumption DEF HandoffTypeOK
  <1>3. CallInv'
    BY DEF CallInv, WorldTypeOK
  <1>4. QuietInv'
    BY DEF WorldTypeOK, QuiescerTypeOK, CallInv, QuietInv
  <1>5. EvidenceInv'
    BY DEF QuiescerTypeOK, CallInv, EvidenceInv, CompleteQuiescence, Captured
  <1>6. RestoredInv'
    BY DEF WorldTypeOK, QuiescerTypeOK, CallInv, RestoredInv, VerifiedInv, LeaseInv, Serving
  <1>7. StartInv'
    BY DEF WorldTypeOK, CallInv, StartInv, IsLast, Targets
  <1>8. VerifiedInv'
    BY DEF QuiescerTypeOK, CallInv, RestoredInv, EvidenceInv, VerifiedInv, LeaseInv
  <1>9. ContainerInv'
    BY DEF HandoffTypeOK, CallInv, VerifiedInv, ContainerInv, LeaseInv
  <1>10. LeaseInv'
    BY DEF HandoffTypeOK, CallInv, VerifiedInv, LeaseInv, ContainerInv, RecoveryCode
  <1>11. WorldTypeOK' /\ WorldInv'
    BY DEF WorldInv, WorldTypeOK
  <1> QED
    BY <1>1, <1>2, <1>3, <1>4, <1>5, <1>6, <1>7, <1>8, <1>9, <1>10, <1>11

\* Begin hands out the lease, unless it was cancelled.
LEMMA AppliedInv ==
  ASSUME IInv, Applied
  PROVE  IInv'
  <1> USE DEF IInv, TypeOK, Applied, ApplyFails
  <1>1. QuiescerTypeOK'
    <2>1. UNCHANGED pm2vars \/ CallRecover
      OBVIOUS
    <2> QED
      BY <2>1, CallTypes
  <1>2. HandoffTypeOK'
    BY CompletionsAssumption DEF HandoffTypeOK
  <1>3. CallInv'
    BY DEF CallInv, WorldTypeOK
  <1>4. QuietInv'
    BY DEF WorldTypeOK, QuiescerTypeOK, CallInv, QuietInv
  <1>5. EvidenceInv'
    BY DEF QuiescerTypeOK, CallInv, EvidenceInv, CompleteQuiescence, Captured
  <1>6. RestoredInv'
    BY DEF WorldTypeOK, QuiescerTypeOK, CallInv, RestoredInv, VerifiedInv, LeaseInv, Serving
  <1>7. StartInv'
    BY DEF WorldTypeOK, CallInv, StartInv, IsLast, Targets
  <1>8. VerifiedInv'
    BY DEF QuiescerTypeOK, CallInv, RestoredInv, EvidenceInv, VerifiedInv, LeaseInv
  <1>9. ContainerInv'
    BY DEF HandoffTypeOK, CallInv, VerifiedInv, ContainerInv, LeaseInv
  <1>10. LeaseInv'
    BY DEF HandoffTypeOK, CallInv, VerifiedInv, LeaseInv, ContainerInv, RecoveryCode
  <1>11. WorldTypeOK' /\ WorldInv'
    BY DEF WorldInv, WorldTypeOK
  <1> QED
    BY <1>1, <1>2, <1>3, <1>4, <1>5, <1>6, <1>7, <1>8, <1>9, <1>10, <1>11

\* The recovery of the services follows that of the container.
LEMMA UndoContainerInv ==
  ASSUME IInv, UndoContainer
  PROVE  IInv'
  <1> USE DEF IInv, TypeOK, UndoContainer, ContainerRecovered
  <1>1. QuiescerTypeOK'
    BY DEF QuiescerTypeOK
  <1>2. HandoffTypeOK'
    BY CompletionsAssumption DEF HandoffTypeOK
  <1>3. CallInv'
    BY DEF CallInv, WorldTypeOK
  <1>4. QuietInv'
    BY DEF WorldTypeOK, QuiescerTypeOK, CallInv, QuietInv
  <1>5. EvidenceInv'
    BY DEF QuiescerTypeOK, CallInv, EvidenceInv, CompleteQuiescence, Captured
  <1>6. RestoredInv'
    BY DEF WorldTypeOK, QuiescerTypeOK, CallInv, RestoredInv, VerifiedInv, LeaseInv, Serving
  <1>7. StartInv'
    BY DEF WorldTypeOK, CallInv, StartInv, IsLast, Targets
  <1>8. VerifiedInv'
    BY DEF QuiescerTypeOK, CallInv, RestoredInv, EvidenceInv, VerifiedInv, LeaseInv
  <1>9. ContainerInv'
    BY DEF HandoffTypeOK, CallInv, VerifiedInv, ContainerInv, LeaseInv
  <1>10. LeaseInv'
    BY DEF HandoffTypeOK, CallInv, VerifiedInv, LeaseInv, ContainerInv, RecoveryCode
  <1>11. WorldTypeOK' /\ WorldInv'
    BY DEF WorldInv, WorldTypeOK
  <1> QED
    BY <1>1, <1>2, <1>3, <1>4, <1>5, <1>6, <1>7, <1>8, <1>9, <1>10, <1>11

\* A Begin whose container step failed returns.
LEMMA UndoPM2ReturnsInv ==
  ASSUME IInv, UndoPM2Returns
  PROVE  IInv'
  <1> USE DEF IInv, TypeOK, UndoPM2Returns
  <1>1. HandoffTypeOK'
    BY CompletionsAssumption DEF HandoffTypeOK
  <1>2. CallInv'
    BY DEF CallInv, WorldTypeOK
  <1>3. QuietInv'
    BY DEF WorldTypeOK, QuiescerTypeOK, CallInv, QuietInv
  <1>4. EvidenceInv'
    BY DEF QuiescerTypeOK, CallInv, EvidenceInv, CompleteQuiescence, Captured
  <1>5. RestoredInv'
    BY DEF WorldTypeOK, QuiescerTypeOK, CallInv, RestoredInv, VerifiedInv, LeaseInv, Serving
  <1>6. VerifiedInv'
    BY DEF QuiescerTypeOK, CallInv, RestoredInv, EvidenceInv, VerifiedInv, LeaseInv
  <1>7. ContainerInv'
    BY DEF HandoffTypeOK, CallInv, VerifiedInv, ContainerInv, LeaseInv
  <1>8. LeaseInv'
    BY DEF HandoffTypeOK, CallInv, VerifiedInv, LeaseInv, ContainerInv, RecoveryCode
  <1>9. WorldTypeOK' /\ QuiescerTypeOK' /\ WorldInv' /\ StartInv'
    BY DEF IsLast, QuiescerTypeOK, StartInv, Targets, WorldInv, WorldTypeOK
  <1> QED
    BY <1>1, <1>2, <1>3, <1>4, <1>5, <1>6, <1>7, <1>8, <1>9

\* The failure completion recovers the container before the services.
LEMMA RestoreContainerInv ==
  ASSUME IInv, RestoreContainer
  PROVE  IInv'
  <1> USE DEF IInv, TypeOK, RestoreContainer, ContainerRecovered
  <1>1. QuiescerTypeOK'
    BY DEF QuiescerTypeOK
  <1>2. HandoffTypeOK'
    BY CompletionsAssumption DEF HandoffTypeOK
  <1>3. CallInv'
    BY DEF CallInv, WorldTypeOK
  <1>4. QuietInv'
    BY DEF WorldTypeOK, QuiescerTypeOK, CallInv, QuietInv
  <1>5. EvidenceInv'
    BY DEF QuiescerTypeOK, CallInv, EvidenceInv, CompleteQuiescence, Captured
  <1>6. RestoredInv'
    BY DEF WorldTypeOK, QuiescerTypeOK, CallInv, RestoredInv, VerifiedInv, LeaseInv, Serving
  <1>7. StartInv'
    BY DEF WorldTypeOK, CallInv, StartInv, IsLast, Targets
  <1>8. VerifiedInv'
    BY DEF QuiescerTypeOK, CallInv, RestoredInv, EvidenceInv, VerifiedInv, LeaseInv
  <1>9. ContainerInv'
    BY DEF HandoffTypeOK, CallInv, VerifiedInv, ContainerInv, LeaseInv
  <1>10. LeaseInv'
    BY DEF HandoffTypeOK, CallInv, VerifiedInv, LeaseInv, ContainerInv, RecoveryCode
  <1>11. WorldTypeOK' /\ WorldInv'
    BY DEF WorldInv, WorldTypeOK
  <1> QED
    BY <1>1, <1>2, <1>3, <1>4, <1>5, <1>6, <1>7, <1>8, <1>9, <1>10, <1>11

\* What the completion reports is the outcome of both recoveries.
LEMMA RestorePM2ReturnsInv ==
  ASSUME IInv, RestorePM2Returns
  PROVE  IInv'
  <1> USE DEF IInv, TypeOK, RestorePM2Returns, RecoveryCode
  <1>1. HandoffTypeOK'
    <2>1. RecoveryCode \in Reports
      BY DEF RestoredInv
    <2> QED
      BY <2>1 DEF HandoffTypeOK
  <1>2. CallInv'
    BY DEF CallInv, WorldTypeOK
  <1>3. QuietInv'
    BY DEF WorldTypeOK, QuiescerTypeOK, CallInv, QuietInv
  <1>4. EvidenceInv'
    BY DEF QuiescerTypeOK, CallInv, EvidenceInv, CompleteQuiescence, Captured
  <1>5. RestoredInv'
    BY DEF WorldTypeOK, QuiescerTypeOK, CallInv, RestoredInv, VerifiedInv, LeaseInv, Serving
  <1>6. VerifiedInv'
    BY DEF QuiescerTypeOK, CallInv, RestoredInv, EvidenceInv, VerifiedInv, LeaseInv
  <1>7. ContainerInv'
    BY DEF HandoffTypeOK, CallInv, VerifiedInv, ContainerInv, LeaseInv
  <1>8. LeaseInv'
    BY DEF HandoffTypeOK, CallInv, VerifiedInv, LeaseInv, ContainerInv, RecoveryCode
  <1>9. WorldTypeOK' /\ QuiescerTypeOK' /\ WorldInv' /\ StartInv'
    BY DEF IsLast, QuiescerTypeOK, StartInv, Targets, WorldInv, WorldTypeOK
  <1> QED
    BY <1>1, <1>2, <1>3, <1>4, <1>5, <1>6, <1>7, <1>8, <1>9

\* The first half of a snapshot.
LEMMA ReadInventoryInv ==
  ASSUME IInv, ReadInventory, UNCHANGED handoff
  PROVE  IInv'
  <1> USE DEF IInv, TypeOK, ReadInventory, Live
  <1>1. QuiescerTypeOK'
    BY DEF QuiescerTypeOK, WorldTypeOK
  <1>2. CallInv'
    BY DEF CallInv, WorldTypeOK
  <1>3. WorldTypeOK' /\ HandoffTypeOK' /\ WorldInv' /\ QuietInv' /\ EvidenceInv' /\
        RestoredInv' /\ StartInv' /\ VerifiedInv' /\ ContainerInv' /\ LeaseInv'
    BY DEF Captured, CompleteQuiescence, ContainerInv, EvidenceInv, HandoffTypeOK, IsLast,
           LeaseInv, QuietInv, RestoredInv, Serving, StartInv, Targets, VerifiedInv,
           WorldInv, WorldTypeOK
  <1> QED
    BY <1>1, <1>2, <1>3

\* The capture.
LEMMA QuiesceInitialInv ==
  ASSUME IInv, QuiesceInitial, UNCHANGED handoff
  PROVE  IInv'
  <1> USE DEF IInv, TypeOK, QuiesceInitial, Observed, Correlates, Selected
  <1>1. QuiescerTypeOK'
    BY EndSnapshotTypes DEF QuiescerTypeOK
  <1>2. CallInv'
    BY DEF CallInv, WorldTypeOK
  <1>3. EvidenceInv'
    BY DEF QuiescerTypeOK, CallInv, EvidenceInv, CompleteQuiescence, Captured
  <1>4. RestoredInv'
    BY DEF WorldTypeOK, QuiescerTypeOK, CallInv, RestoredInv, VerifiedInv, LeaseInv, Serving
  <1>5. StartInv'
    BY DEF WorldTypeOK, CallInv, StartInv, IsLast, Targets
  <1>6. VerifiedInv'
    BY DEF QuiescerTypeOK, CallInv, RestoredInv, EvidenceInv, VerifiedInv, LeaseInv
  <1>7. WorldTypeOK' /\ HandoffTypeOK' /\ WorldInv' /\ QuietInv' /\ ContainerInv' /\
        LeaseInv'
    BY DEF ContainerInv, HandoffTypeOK, LeaseInv, QuietInv, WorldInv, WorldTypeOK
  <1> QED
    BY <1>1, <1>2, <1>3, <1>4, <1>5, <1>6, <1>7

\* A no-op is verified with nothing captured or acknowledged.
LEMMA QuiesceNoopFinalInv ==
  ASSUME IInv, QuiesceNoopFinal, UNCHANGED handoff
  PROVE  IInv'
  <1> USE DEF IInv, TypeOK, QuiesceNoopFinal, Observed
  <1>1. QuiescerTypeOK'
    BY EndSnapshotTypes DEF QuiescerTypeOK
  <1>2. CallInv'
    BY DEF CallInv, WorldTypeOK
  <1>3. EvidenceInv'
    BY DEF QuiescerTypeOK, CallInv, EvidenceInv, CompleteQuiescence, Captured
  <1>4. RestoredInv'
    BY DEF WorldTypeOK, QuiescerTypeOK, CallInv, RestoredInv, VerifiedInv, LeaseInv, Serving
  <1>5. StartInv'
    BY DEF WorldTypeOK, CallInv, StartInv, IsLast, Targets
  <1>6. VerifiedInv'
    BY DEF QuiescerTypeOK, CallInv, RestoredInv, EvidenceInv, VerifiedInv, LeaseInv
  <1>7. WorldTypeOK' /\ HandoffTypeOK' /\ WorldInv' /\ QuietInv' /\ ContainerInv' /\
        LeaseInv'
    BY DEF ContainerInv, HandoffTypeOK, LeaseInv, QuietInv, WorldInv, WorldTypeOK
  <1> QED
    BY <1>1, <1>2, <1>3, <1>4, <1>5, <1>6, <1>7

\* The proof that what was captured is what runs.
LEMMA QuiescePreStopInv ==
  ASSUME IInv, QuiescePreStop, UNCHANGED handoff
  PROVE  IInv'
  <1> USE DEF IInv, TypeOK, QuiescePreStop
  <1>1. QuiescerTypeOK'
    BY EndSnapshotTypes DEF QuiescerTypeOK
  <1>2. CallInv'
    BY DEF CallInv, WorldTypeOK
  <1>3. EvidenceInv'
    BY DEF QuiescerTypeOK, CallInv, EvidenceInv, CompleteQuiescence, Captured
  <1>4. RestoredInv'
    BY DEF WorldTypeOK, QuiescerTypeOK, CallInv, RestoredInv, VerifiedInv, LeaseInv, Serving
  <1>5. StartInv'
    BY DEF WorldTypeOK, CallInv, StartInv, IsLast, Targets
  <1>6. VerifiedInv'
    BY DEF QuiescerTypeOK, CallInv, RestoredInv, EvidenceInv, VerifiedInv, LeaseInv
  <1>7. WorldTypeOK' /\ HandoffTypeOK' /\ WorldInv' /\ QuietInv' /\ ContainerInv' /\
        LeaseInv'
    BY DEF ContainerInv, HandoffTypeOK, LeaseInv, QuietInv, WorldInv, WorldTypeOK
  <1> QED
    BY <1>1, <1>2, <1>3, <1>4, <1>5, <1>6, <1>7

\* The next service is stopped, or the command fails and may have stopped it.
LEMMA QuiesceStopInv ==
  ASSUME IInv, QuiesceStop, UNCHANGED handoff
  PROVE  IInv'
  <1> USE DEF IInv, TypeOK, QuiesceStop, IsFirst, Pending, Captured
  <1>1. WorldTypeOK'
    BY MaxGenAssumption, DisturbancesAssumption DEF WorldTypeOK
  <1>2. QuiescerTypeOK'
    BY DEF QuiescerTypeOK
  <1>3. CallInv'
    BY DEF CallInv, WorldTypeOK
  <1>4. WorldInv'
    BY MaxGenAssumption DEF WorldTypeOK, WorldInv
  <1>5. QuietInv'
    BY DEF WorldTypeOK, QuiescerTypeOK, CallInv, QuietInv
  <1>6. EvidenceInv'
    BY DEF QuiescerTypeOK, CallInv, EvidenceInv, CompleteQuiescence, Captured
  <1>7. RestoredInv'
    BY DEF WorldTypeOK, QuiescerTypeOK, CallInv, RestoredInv, VerifiedInv, LeaseInv, Serving
  <1>8. StartInv'
    BY DEF WorldTypeOK, CallInv, StartInv, IsLast, Targets
  <1>9. VerifiedInv'
    BY DEF QuiescerTypeOK, CallInv, RestoredInv, EvidenceInv, VerifiedInv, LeaseInv
  <1>10. ContainerInv'
    BY DEF HandoffTypeOK, CallInv, VerifiedInv, ContainerInv, LeaseInv
  <1>11. LeaseInv'
    BY DEF HandoffTypeOK, CallInv, VerifiedInv, LeaseInv, ContainerInv, RecoveryCode
  <1>12. HandoffTypeOK'
    BY DEF HandoffTypeOK
  <1> QED
    BY <1>1, <1>2, <1>3, <1>4, <1>5, <1>6, <1>7, <1>8, <1>9, <1>10, <1>11, <1>12

\* A verified stop has freed the port.
LEMMA QuiesceStopProofInv ==
  ASSUME IInv, QuiesceStopProof, UNCHANGED handoff
  PROVE  IInv'
  <1> USE DEF IInv, TypeOK, QuiesceStopProof, Observed, StoppedAndReleased, Pending
  <1>1. QuiescerTypeOK'
    BY EndSnapshotTypes DEF QuiescerTypeOK
  <1>2. CallInv'
    BY DEF CallInv, WorldTypeOK
  <1>3. QuietInv'
    BY DEF WorldTypeOK, QuiescerTypeOK, CallInv, QuietInv
  <1>4. EvidenceInv'
    BY DEF QuiescerTypeOK, CallInv, EvidenceInv, CompleteQuiescence, Captured
  <1>5. RestoredInv'
    BY DEF WorldTypeOK, QuiescerTypeOK, CallInv, RestoredInv, VerifiedInv, LeaseInv, Serving
  <1>6. StartInv'
    BY DEF WorldTypeOK, CallInv, StartInv, IsLast, Targets
  <1>7. VerifiedInv'
    BY DEF QuiescerTypeOK, CallInv, RestoredInv, EvidenceInv, VerifiedInv, LeaseInv
  <1>8. WorldTypeOK' /\ HandoffTypeOK' /\ WorldInv' /\ ContainerInv' /\ LeaseInv'
    BY DEF ContainerInv, HandoffTypeOK, LeaseInv, WorldInv, WorldTypeOK
  <1> QED
    BY <1>1, <1>2, <1>3, <1>4, <1>5, <1>6, <1>7, <1>8

\* The proof of a stop runs out of time.
LEMMA StopProofTimesOutInv ==
  ASSUME IInv, StopProofTimesOut, UNCHANGED handoff
  PROVE  IInv'
  <1> USE DEF IInv, TypeOK, StopProofTimesOut
  <1>1. QuiescerTypeOK'
    BY EndSnapshotTypes DEF QuiescerTypeOK
  <1>2. CallInv'
    BY DEF CallInv, WorldTypeOK
  <1>3. EvidenceInv'
    BY DEF QuiescerTypeOK, CallInv, EvidenceInv, CompleteQuiescence, Captured
  <1>4. RestoredInv'
    BY DEF WorldTypeOK, QuiescerTypeOK, CallInv, RestoredInv, VerifiedInv, LeaseInv, Serving
  <1>5. StartInv'
    BY DEF WorldTypeOK, CallInv, StartInv, IsLast, Targets
  <1>6. VerifiedInv'
    BY DEF QuiescerTypeOK, CallInv, RestoredInv, EvidenceInv, VerifiedInv, LeaseInv
  <1>7. WorldTypeOK' /\ HandoffTypeOK' /\ WorldInv' /\ QuietInv' /\ ContainerInv' /\
        LeaseInv'
    BY DEF ContainerInv, HandoffTypeOK, LeaseInv, QuietInv, WorldInv, WorldTypeOK
  <1> QED
    BY <1>1, <1>2, <1>3, <1>4, <1>5, <1>6, <1>7

\* The last look at all that was captured.
LEMMA QuiesceFinalInv ==
  ASSUME IInv, QuiesceFinal, UNCHANGED handoff
  PROVE  IInv'
  <1> USE DEF IInv, TypeOK, QuiesceFinal
  <1>1. QuiescerTypeOK'
    BY EndSnapshotTypes DEF QuiescerTypeOK
  <1>2. CallInv'
    BY DEF CallInv, WorldTypeOK
  <1>3. EvidenceInv'
    BY DEF QuiescerTypeOK, CallInv, EvidenceInv, CompleteQuiescence, Captured
  <1>4. RestoredInv'
    BY DEF WorldTypeOK, QuiescerTypeOK, CallInv, RestoredInv, VerifiedInv, LeaseInv, Serving
  <1>5. StartInv'
    BY DEF WorldTypeOK, CallInv, StartInv, IsLast, Targets
  <1>6. VerifiedInv'
    BY DEF QuiescerTypeOK, CallInv, RestoredInv, EvidenceInv, VerifiedInv, LeaseInv
  <1>7. WorldTypeOK' /\ HandoffTypeOK' /\ WorldInv' /\ QuietInv' /\ ContainerInv' /\
        LeaseInv'
    BY DEF ContainerInv, HandoffTypeOK, LeaseInv, QuietInv, WorldInv, WorldTypeOK
  <1> QED
    BY <1>1, <1>2, <1>3, <1>4, <1>5, <1>6, <1>7

\* The service that comes next is seen stopped.
LEMMA RecoverBeforeInv ==
  ASSUME IInv, RecoverBefore, UNCHANGED handoff
  PROVE  IInv'
  <1> USE DEF IInv, TypeOK, RecoverBefore, Observed, StoppedAndReleased
  <1>1. QuiescerTypeOK'
    BY EndSnapshotTypes DEF QuiescerTypeOK
  <1>2. CallInv'
    BY DEF CallInv, WorldTypeOK
  <1>3. EvidenceInv'
    BY DEF QuiescerTypeOK, CallInv, EvidenceInv, CompleteQuiescence, Captured
  <1>4. RestoredInv'
    BY DEF WorldTypeOK, QuiescerTypeOK, CallInv, RestoredInv, VerifiedInv, LeaseInv, Serving
  <1>5. StartInv'
    <2> SUFFICES ASSUME qpc' = "recoverStart", disturbed = 0, NEW s \in Services, IsLast(s, Targets)
                 PROVE  run[s] = 0
      BY DEF StartInv, IsLast, Targets
    <2>1. PICK t \in Services : IsLast(t, Targets) /\ Observed /\ StoppedAndReleased({t})
      BY Zenon
    <2>2. t = s
      BY <2>1, ServicesAssumption DEF IsLast
    <2> QED
      BY <2>1, <2>2 DEF CallInv
  <1>6. VerifiedInv'
    BY DEF QuiescerTypeOK, CallInv, RestoredInv, EvidenceInv, VerifiedInv, LeaseInv
  <1>7. WorldTypeOK' /\ HandoffTypeOK' /\ WorldInv' /\ QuietInv' /\ ContainerInv' /\
        LeaseInv'
    BY DEF ContainerInv, HandoffTypeOK, LeaseInv, QuietInv, WorldInv, WorldTypeOK
  <1> QED
    BY <1>1, <1>2, <1>3, <1>4, <1>5, <1>6, <1>7

\* It is started; the services already restored are left alone.
LEMMA RecoverStartInv ==
  ASSUME IInv, RecoverStart, UNCHANGED handoff
  PROVE  IInv'
  <1> USE DEF IInv, TypeOK, RecoverStart, StartedAs, Targets, IsLast
  <1>1. WorldTypeOK'
    BY MaxGenAssumption, DisturbancesAssumption DEF WorldTypeOK
  <1>2. QuiescerTypeOK'
    BY DEF QuiescerTypeOK
  <1>3. CallInv'
    BY DEF CallInv, WorldTypeOK
  <1>4. WorldInv'
    BY MaxGenAssumption DEF WorldTypeOK, WorldInv
  <1>5. QuietInv'
    BY DEF WorldTypeOK, QuiescerTypeOK, CallInv, QuietInv
  <1>6. EvidenceInv'
    BY DEF QuiescerTypeOK, CallInv, EvidenceInv, CompleteQuiescence, Captured
  <1>7. RestoredInv'
    BY DEF WorldTypeOK, QuiescerTypeOK, CallInv, RestoredInv, VerifiedInv, LeaseInv, Serving
  <1>8. StartInv'
    BY DEF WorldTypeOK, CallInv, StartInv, IsLast, Targets
  <1>9. VerifiedInv'
    BY DEF QuiescerTypeOK, CallInv, RestoredInv, EvidenceInv, VerifiedInv, LeaseInv
  <1>10. HandoffTypeOK' /\ ContainerInv' /\ LeaseInv'
    BY DEF ContainerInv, HandoffTypeOK, LeaseInv
  <1> QED
    BY <1>1, <1>2, <1>3, <1>4, <1>5, <1>6, <1>7, <1>8, <1>9, <1>10

\* It is seen online, on its port.
LEMMA RecoverProofInv ==
  ASSUME IInv, RecoverProof, UNCHANGED handoff
  PROVE  IInv'
  <1> USE DEF IInv, TypeOK, RecoverProof, Observed, Recovered, Targets, IsLast, Serving
  <1>1. QuiescerTypeOK'
    BY EndSnapshotTypes DEF QuiescerTypeOK
  <1>2. CallInv'
    BY DEF CallInv, WorldTypeOK
  <1>3. EvidenceInv'
    BY DEF QuiescerTypeOK, CallInv, EvidenceInv, CompleteQuiescence, Captured
  <1>4. RestoredInv'
    BY DEF WorldTypeOK, QuiescerTypeOK, CallInv, RestoredInv, VerifiedInv, LeaseInv, Serving
  <1>5. StartInv'
    BY DEF WorldTypeOK, CallInv, StartInv, IsLast, Targets
  <1>6. VerifiedInv'
    BY DEF QuiescerTypeOK, CallInv, RestoredInv, EvidenceInv, VerifiedInv, LeaseInv
  <1>7. ContainerInv'
    BY DEF HandoffTypeOK, CallInv, VerifiedInv, ContainerInv, LeaseInv
  <1>8. LeaseInv'
    BY DEF HandoffTypeOK, CallInv, VerifiedInv, LeaseInv, ContainerInv, RecoveryCode
  <1>9. WorldTypeOK' /\ HandoffTypeOK' /\ WorldInv' /\ QuietInv'
    BY DEF HandoffTypeOK, QuietInv, WorldInv, WorldTypeOK
  <1> QED
    BY <1>1, <1>2, <1>3, <1>4, <1>5, <1>6, <1>7, <1>8, <1>9

\* The proof of a start runs out of time.
LEMMA RecoveryProofTimesOutInv ==
  ASSUME IInv, RecoveryProofTimesOut, UNCHANGED handoff
  PROVE  IInv'
  <1> USE DEF IInv, TypeOK, RecoveryProofTimesOut
  <1>1. QuiescerTypeOK'
    BY EndSnapshotTypes DEF QuiescerTypeOK
  <1>2. CallInv'
    BY DEF CallInv, WorldTypeOK
  <1>3. EvidenceInv'
    BY DEF QuiescerTypeOK, CallInv, EvidenceInv, CompleteQuiescence, Captured
  <1>4. RestoredInv'
    BY DEF WorldTypeOK, QuiescerTypeOK, CallInv, RestoredInv, VerifiedInv, LeaseInv, Serving
  <1>5. StartInv'
    BY DEF WorldTypeOK, CallInv, StartInv, IsLast, Targets
  <1>6. VerifiedInv'
    BY DEF QuiescerTypeOK, CallInv, RestoredInv, EvidenceInv, VerifiedInv, LeaseInv
  <1>7. WorldTypeOK' /\ HandoffTypeOK' /\ WorldInv' /\ QuietInv' /\ ContainerInv' /\
        LeaseInv'
    BY DEF ContainerInv, HandoffTypeOK, LeaseInv, QuietInv, WorldInv, WorldTypeOK
  <1> QED
    BY <1>1, <1>2, <1>3, <1>4, <1>5, <1>6, <1>7

\* A lease that is consumed by a success stays where it was.
LEMMA CompleteSuccessInv ==
  ASSUME IInv, CompleteSuccess
  PROVE  IInv'
  <1> USE DEF IInv, TypeOK, CompleteSuccess, Consume, AlreadyConsumed
  <1>1. HandoffTypeOK'
    <2>1. completions' \in 0..MaxCompletions
      BY CompletionsAssumption DEF HandoffTypeOK
    <2>2. reports' \subseteq Reports /\ consumed' \in BOOLEAN
      BY DEF HandoffTypeOK
    <2>3. /\ winner' \in {"none", "success", "failure"}
          /\ hpc' \in BeginSteps \union BeginReturned \union CompletionSteps \union {"completed"}
          /\ containerOK' \in BOOLEAN
      BY DEF HandoffTypeOK
    <2> HIDE DEF CompleteSuccess, CompleteFailure, Consume, AlreadyConsumed
    <2> QED
      BY <2>1, <2>2, <2>3 DEF HandoffTypeOK, CompleteSuccess, CompleteFailure
  <1>2. LeaseInv'
    BY DEF HandoffTypeOK, CallInv, VerifiedInv, LeaseInv, ContainerInv, RecoveryCode
  <1>3. WorldTypeOK' /\ QuiescerTypeOK' /\ CallInv' /\ WorldInv' /\ QuietInv' /\
        EvidenceInv' /\ RestoredInv' /\ StartInv' /\ VerifiedInv' /\ ContainerInv'
    BY DEF CallInv, Captured, CompleteQuiescence, ContainerInv, EvidenceInv, IsLast,
           QuiescerTypeOK, QuietInv, RestoredInv, Serving, StartInv, Targets, VerifiedInv,
           WorldInv, WorldTypeOK
  <1> QED
    BY <1>1, <1>2, <1>3

\* The first completion consumes the lease; another changes nothing but the reports.
LEMMA CompleteFailureInv ==
  ASSUME IInv, CompleteFailure
  PROVE  IInv'
  <1> USE DEF IInv, TypeOK, CompleteFailure, Consume, AlreadyConsumed
  <1>1. QuiescerTypeOK'
    BY DEF QuiescerTypeOK
  <1>2. HandoffTypeOK'
    <2>1. completions' \in 0..MaxCompletions
      BY CompletionsAssumption DEF HandoffTypeOK
    <2>2. reports' \subseteq Reports /\ consumed' \in BOOLEAN
      BY DEF HandoffTypeOK
    <2>3. /\ winner' \in {"none", "success", "failure"}
          /\ hpc' \in BeginSteps \union BeginReturned \union CompletionSteps \union {"completed"}
          /\ containerOK' \in BOOLEAN
      BY DEF HandoffTypeOK
    <2> HIDE DEF CompleteSuccess, CompleteFailure, Consume, AlreadyConsumed
    <2> QED
      BY <2>1, <2>2, <2>3 DEF HandoffTypeOK, CompleteSuccess, CompleteFailure
  <1>3. CallInv'
    <2>1. \/ /\ consumed /\ UNCHANGED <<pm2vars, hpc>>
          \/ /\ hpc = "failedLeased" /\ hpc' = "restorePM2" /\ CallRecover
          \/ /\ hpc = "leased" /\ hpc' = "restoreContainer" /\ UNCHANGED pm2vars
      BY DEF LeaseInv, HandoffTypeOK
    <2> HIDE DEF CompleteFailure, Consume, AlreadyConsumed
    <2> QED
      BY <2>1 DEF CallInv, WorldTypeOK
  <1>4. QuietInv'
    <2>1. \/ /\ consumed /\ UNCHANGED <<pm2vars, hpc>>
          \/ /\ hpc = "failedLeased" /\ hpc' = "restorePM2" /\ CallRecover
          \/ /\ hpc = "leased" /\ hpc' = "restoreContainer" /\ UNCHANGED pm2vars
      BY DEF LeaseInv, HandoffTypeOK
    <2> HIDE DEF CompleteFailure, Consume, AlreadyConsumed
    <2> QED
      BY <2>1 DEF WorldTypeOK, QuiescerTypeOK, CallInv, QuietInv
  <1>5. EvidenceInv'
    <2>1. \/ /\ consumed /\ UNCHANGED <<pm2vars, hpc>>
          \/ /\ hpc = "failedLeased" /\ hpc' = "restorePM2" /\ CallRecover
          \/ /\ hpc = "leased" /\ hpc' = "restoreContainer" /\ UNCHANGED pm2vars
      BY DEF LeaseInv, HandoffTypeOK
    <2> HIDE DEF CompleteFailure, Consume, AlreadyConsumed
    <2>2. UNCHANGED <<acked, noop>> /\ CompleteQuiescence' = CompleteQuiescence
      BY <2>1 DEF CompleteQuiescence, Captured
    <2> QED
      BY <2>1, <2>2 DEF EvidenceInv
  <1>6. RestoredInv'
    <2>1. \/ /\ consumed /\ UNCHANGED <<pm2vars, hpc>>
          \/ /\ hpc = "failedLeased" /\ hpc' = "restorePM2" /\ CallRecover
          \/ /\ hpc = "leased" /\ hpc' = "restoreContainer" /\ UNCHANGED pm2vars
      BY DEF LeaseInv, HandoffTypeOK
    <2> HIDE DEF CompleteFailure, Consume, AlreadyConsumed
    <2> QED
      BY <2>1 DEF WorldTypeOK, QuiescerTypeOK, CallInv, RestoredInv, VerifiedInv, LeaseInv, Serving
  <1>7. StartInv'
    BY DEF WorldTypeOK, CallInv, StartInv, IsLast, Targets
  <1>8. VerifiedInv'
    BY DEF QuiescerTypeOK, CallInv, RestoredInv, EvidenceInv, VerifiedInv, LeaseInv
  <1>9. ContainerInv'
    BY DEF HandoffTypeOK, CallInv, VerifiedInv, ContainerInv, LeaseInv
  <1>10. LeaseInv'
    BY DEF HandoffTypeOK, CallInv, VerifiedInv, LeaseInv, ContainerInv, RecoveryCode
  <1>11. WorldTypeOK' /\ WorldInv'
    BY DEF WorldInv, WorldTypeOK
  <1> QED
    BY <1>1, <1>2, <1>3, <1>4, <1>5, <1>6, <1>7, <1>8, <1>9, <1>10, <1>11

\* A cancellation takes effect in later steps.
LEMMA CancelBeginInv ==
  ASSUME IInv, CancelBegin
  PROVE  IInv'
  <1> USE DEF IInv, TypeOK, CancelBegin
  <1>1. QuiescerTypeOK'
    BY DEF QuiescerTypeOK
  <1>2. WorldTypeOK' /\ HandoffTypeOK' /\ CallInv' /\ WorldInv' /\ QuietInv' /\
        EvidenceInv' /\ RestoredInv' /\ StartInv' /\ VerifiedInv' /\ ContainerInv' /\
        LeaseInv'
    BY DEF CallInv, Captured, CompleteQuiescence, ContainerInv, EvidenceInv, HandoffTypeOK,
           IsLast, LeaseInv, QuietInv, RestoredInv, Serving, StartInv, Targets,
           VerifiedInv, WorldInv, WorldTypeOK
  <1> QED
    BY <1>1, <1>2

\* A stopped incarnation gives its port back; no running one does.
LEMMA PortReleasedInv ==
  ASSUME IInv, PortReleased, UNCHANGED handoff
  PROVE  IInv'
  <1> USE DEF IInv, TypeOK, PortReleased
  <1>1. WorldTypeOK'
    BY MaxGenAssumption, DisturbancesAssumption DEF WorldTypeOK
  <1>2. WorldInv'
    BY MaxGenAssumption DEF WorldTypeOK, WorldInv
  <1>3. QuietInv'
    BY DEF WorldTypeOK, QuiescerTypeOK, CallInv, QuietInv
  <1>4. RestoredInv'
    BY DEF WorldTypeOK, QuiescerTypeOK, CallInv, RestoredInv, VerifiedInv, LeaseInv, Serving
  <1>5. QuiescerTypeOK' /\ HandoffTypeOK' /\ CallInv' /\ EvidenceInv' /\ StartInv' /\
        VerifiedInv' /\ ContainerInv' /\ LeaseInv'
    BY DEF CallInv, Captured, CompleteQuiescence, ContainerInv, EvidenceInv, HandoffTypeOK,
           IsLast, LeaseInv, QuiescerTypeOK, StartInv, Targets, VerifiedInv
  <1> QED
    BY <1>1, <1>2, <1>3, <1>4, <1>5

\* Only a running service takes its port.
LEMMA PortBoundInv ==
  ASSUME IInv, PortBound, UNCHANGED handoff
  PROVE  IInv'
  <1> USE DEF IInv, TypeOK, PortBound
  <1>1. WorldTypeOK'
    BY MaxGenAssumption, DisturbancesAssumption DEF WorldTypeOK
  <1>2. WorldInv'
    BY MaxGenAssumption DEF WorldTypeOK, WorldInv
  <1>3. QuietInv'
    BY DEF WorldTypeOK, QuiescerTypeOK, CallInv, QuietInv
  <1>4. RestoredInv'
    BY DEF WorldTypeOK, QuiescerTypeOK, CallInv, RestoredInv, VerifiedInv, LeaseInv, Serving
  <1>5. QuiescerTypeOK' /\ HandoffTypeOK' /\ CallInv' /\ EvidenceInv' /\ StartInv' /\
        VerifiedInv' /\ ContainerInv' /\ LeaseInv'
    BY DEF CallInv, Captured, CompleteQuiescence, ContainerInv, EvidenceInv, HandoffTypeOK,
           IsLast, LeaseInv, QuiescerTypeOK, StartInv, Targets, VerifiedInv
  <1> QED
    BY <1>1, <1>2, <1>3, <1>4, <1>5

\* The recovery's context ends.
LEMMA ExpireRecoverInv ==
  ASSUME IInv, ExpireRecover, UNCHANGED handoff
  PROVE  IInv'
  <1> USE DEF IInv, TypeOK, ExpireRecover
  <1>1. QuiescerTypeOK'
    BY DEF QuiescerTypeOK
  <1>2. WorldTypeOK' /\ HandoffTypeOK' /\ CallInv' /\ WorldInv' /\ QuietInv' /\
        EvidenceInv' /\ RestoredInv' /\ StartInv' /\ VerifiedInv' /\ ContainerInv' /\
        LeaseInv'
    BY DEF CallInv, Captured, CompleteQuiescence, ContainerInv, EvidenceInv, HandoffTypeOK,
           IsLast, LeaseInv, QuietInv, RestoredInv, Serving, StartInv, Targets,
           VerifiedInv, WorldInv, WorldTypeOK
  <1> QED
    BY <1>1, <1>2

\* A disturbance, after which nothing is said of the services.
LEMMA RespawnInv ==
  ASSUME IInv, Respawn, UNCHANGED handoff
  PROVE  IInv'
  <1> USE DEF IInv, TypeOK, Respawn, Disturb, StartedAs
  <1>1. WorldTypeOK'
    BY MaxGenAssumption, DisturbancesAssumption DEF WorldTypeOK
  <1>2. CallInv'
    BY DEF CallInv, WorldTypeOK
  <1>3. WorldInv'
    BY MaxGenAssumption DEF WorldTypeOK, WorldInv
  <1>4. QuietInv'
    BY DEF WorldTypeOK, QuiescerTypeOK, CallInv, QuietInv
  <1>5. RestoredInv'
    BY DEF WorldTypeOK, QuiescerTypeOK, CallInv, RestoredInv, VerifiedInv, LeaseInv, Serving
  <1>6. StartInv'
    BY DEF WorldTypeOK, CallInv, StartInv, IsLast, Targets
  <1>7. QuiescerTypeOK' /\ HandoffTypeOK' /\ EvidenceInv' /\ VerifiedInv' /\ ContainerInv'
        /\ LeaseInv'
    BY DEF Captured, CompleteQuiescence, ContainerInv, EvidenceInv, HandoffTypeOK,
           LeaseInv, QuiescerTypeOK, VerifiedInv
  <1> QED
    BY <1>1, <1>2, <1>3, <1>4, <1>5, <1>6, <1>7

\* The same.
LEMMA OperatorStopsInv ==
  ASSUME IInv, OperatorStops, UNCHANGED handoff
  PROVE  IInv'
  <1> USE DEF IInv, TypeOK, OperatorStops, Disturb
  <1>1. WorldTypeOK'
    BY MaxGenAssumption, DisturbancesAssumption DEF WorldTypeOK
  <1>2. CallInv'
    BY DEF CallInv, WorldTypeOK
  <1>3. WorldInv'
    BY MaxGenAssumption DEF WorldTypeOK, WorldInv
  <1>4. QuietInv'
    BY DEF WorldTypeOK, QuiescerTypeOK, CallInv, QuietInv
  <1>5. RestoredInv'
    BY DEF WorldTypeOK, QuiescerTypeOK, CallInv, RestoredInv, VerifiedInv, LeaseInv, Serving
  <1>6. StartInv'
    BY DEF WorldTypeOK, CallInv, StartInv, IsLast, Targets
  <1>7. QuiescerTypeOK' /\ HandoffTypeOK' /\ EvidenceInv' /\ VerifiedInv' /\ ContainerInv'
        /\ LeaseInv'
    BY DEF Captured, CompleteQuiescence, ContainerInv, EvidenceInv, HandoffTypeOK,
           LeaseInv, QuiescerTypeOK, VerifiedInv
  <1> QED
    BY <1>1, <1>2, <1>3, <1>4, <1>5, <1>6, <1>7

\* The same.
LEMMA ForeignBindsInv ==
  ASSUME IInv, ForeignBinds, UNCHANGED handoff
  PROVE  IInv'
  <1> USE DEF IInv, TypeOK, ForeignBinds, Disturb
  <1>1. WorldTypeOK'
    BY MaxGenAssumption, DisturbancesAssumption DEF WorldTypeOK
  <1>2. CallInv'
    BY DEF CallInv, WorldTypeOK
  <1>3. WorldInv'
    BY MaxGenAssumption DEF WorldTypeOK, WorldInv
  <1>4. QuietInv'
    BY DEF WorldTypeOK, QuiescerTypeOK, CallInv, QuietInv
  <1>5. RestoredInv'
    BY DEF WorldTypeOK, QuiescerTypeOK, CallInv, RestoredInv, VerifiedInv, LeaseInv, Serving
  <1>6. StartInv'
    BY DEF WorldTypeOK, CallInv, StartInv, IsLast, Targets
  <1>7. QuiescerTypeOK' /\ HandoffTypeOK' /\ EvidenceInv' /\ VerifiedInv' /\ ContainerInv'
        /\ LeaseInv'
    BY DEF Captured, CompleteQuiescence, ContainerInv, EvidenceInv, HandoffTypeOK,
           LeaseInv, QuiescerTypeOK, VerifiedInv
  <1> QED
    BY <1>1, <1>2, <1>3, <1>4, <1>5, <1>6, <1>7

-----------------------------------------------------------------------------
(* Theorems.                                                                *)

\* The invariant holds at the start.
LEMMA InitInv == HandoffInit => IInv
  <1> SUFFICES ASSUME HandoffInit PROVE IInv
    OBVIOUS
  <1> USE DEF HandoffInit, Init
  <1>1. WorldTypeOK /\ QuiescerTypeOK
    <2>1. 0 \in 0..MaxGen /\ 1 \in 0..MaxGen /\ 1 \in 1..MaxGen /\ 0 \in 0..MaxDisturbances
      BY MaxGenAssumption, DisturbancesAssumption
    <2>2. socket \in [Services -> 0..(MaxGen + 1)]
      BY MaxGenAssumption
    <2>3. WorldTypeOK
      BY <2>1, <2>2 DEF WorldTypeOK
    <2>4. QuiescerTypeOK
      BY <2>1 DEF QuiescerTypeOK
    <2> QED
      BY <2>3, <2>4
  <1>2. HandoffTypeOK
    <2>1. 0 \in 0..MaxCompletions
      BY CompletionsAssumption
    <2> QED
      BY <2>1 DEF HandoffTypeOK
  <1>3. CallInv /\ QuietInv /\ EvidenceInv /\ RestoredInv
    BY DEF CallInv, QuietInv, EvidenceInv, RestoredInv
  <1>4. WorldInv
    BY <1>1, MaxGenAssumption DEF WorldInv, WorldTypeOK
  <1>5. StartInv /\ VerifiedInv /\ ContainerInv /\ LeaseInv
    BY DEF StartInv, VerifiedInv, ContainerInv, LeaseInv
  <1> QED
    BY <1>1, <1>2, <1>3, <1>4, <1>5 DEF IInv, TypeOK

\* The step of each component.
LEMMA CoordinatorInv == IInv /\ Coordinator => IInv'
  BY RevalidateInv, QuiesceReturnsInv, UndoQuiesceReturnsInv, DockerStopInv, DockerRemoveInv,
     AppliedInv, UndoContainerInv, UndoPM2ReturnsInv, RestoreContainerInv, RestorePM2ReturnsInv
     DEF Coordinator

\* The quiescer's steps keep the invariant.
LEMMA QuiescerInv == IInv /\ Quiescer => IInv'
  BY ReadInventoryInv, QuiesceInitialInv, QuiesceNoopFinalInv, QuiescePreStopInv, QuiesceStopInv,
     QuiesceStopProofInv, StopProofTimesOutInv, QuiesceFinalInv, RecoverBeforeInv,
     RecoverStartInv, RecoverProofInv, RecoveryProofTimesOutInv
     DEF Quiescer, Quiesce, Recover

\* So do PM2, the operator and foreign programs.
LEMMA SurroundingsInv == IInv /\ Surroundings /\ UNCHANGED handoff => IInv'
  BY PortReleasedInv, PortBoundInv, ExpireRecoverInv, RespawnInv, OperatorStopsInv,
     ForeignBindsInv DEF Surroundings

\* A step that changes nothing.
LEMMA StutterInv == IInv /\ UNCHANGED vars => IInv'
  BY DEF IInv, TypeOK, WorldTypeOK, QuiescerTypeOK, HandoffTypeOK, CallInv, WorldInv, QuietInv,
         EvidenceInv, CompleteQuiescence, Captured, RestoredInv, Serving, StartInv, IsLast,
         Targets, VerifiedInv, ContainerInv, LeaseInv

\* The inductive invariant holds in every state, whoever disturbs the services.
THEOREM Invariance == Spec => []IInv
  <1>1. IInv /\ [Next]_vars => IInv'
    <2> SUFFICES ASSUME IInv, [Next]_vars PROVE IInv'
      OBVIOUS
    <2> HIDE DEF vars, handoff
    <2> QED
      BY CoordinatorInv, QuiescerInv, SurroundingsInv, StutterInv, CompleteSuccessInv,
         CompleteFailureInv, CancelBeginInv DEF Next
  <1> QED
    BY InitInv, <1>1, PTL DEF Spec

\* Every variable keeps its type; stop and recovery evidence only concerns services whose
\* stop was acknowledged.
THEOREM TypeCorrect == Spec => []TypeOK
  <1>1. IInv => TypeOK
    BY DEF IInv
  <1> QED
    BY <1>1, Invariance, PTL

\* Undisturbed, the services and the container are down while a full lease is live.
THEOREM LeaseIsQuiet == Spec => []LeaseMeansQuiet
  <1>1. IInv => LeaseMeansQuiet
    BY DEF IInv, TypeOK, QuiescerTypeOK, QuietInv, EvidenceInv, CompleteQuiescence, Captured,
           ContainerInv, LeaseInv, LeaseMeansQuiet
  <1> QED
    BY <1>1, Invariance, PTL

\* Undisturbed, a recovery that is reported as verified is one.
THEOREM VerifiedIsServing == Spec => []VerifiedMeansServing
  <1>1. IInv => VerifiedMeansServing
    BY DEF IInv, RestoredInv, VerifiedInv, LeaseInv, VerifiedMeansServing
  <1> QED
    BY <1>1, Invariance, PTL

\* Undisturbed, a Begin that fails in the quiescence has put everything back.
THEOREM FailureIsCompensated == Spec => []QuiescenceFailureCompensated
  <1>1. IInv => QuiescenceFailureCompensated
    BY DEF IInv, RestoredInv, ContainerInv, QuiescenceFailureCompensated
  <1> QED
    BY <1>1, Invariance, PTL

\* Only the start of a recovery starts a service, one whose stop was acknowledged and which,
\* undisturbed, is down.
THEOREM StartsOnlyStopped == Spec => StartsOnlyWhatItStopped
  <1> DEFINE Starts == disturbed' = disturbed => \A s \in Services :
                 run'[s] \notin {0, run[s]} => s \in acked /\ (disturbed = 0 => run[s] = 0)
  <1>1. IInv /\ [Next]_vars => [Starts]_vars
    <2> SUFFICES ASSUME IInv, Next PROVE Starts
      OBVIOUS
    <2>1. CASE Coordinator \/ CompleteSuccess \/ CompleteFailure \/ CancelBegin
      <3>1. UNCHANGED run
        BY <2>1 DEF Coordinator, Revalidate, QuiesceReturns, UndoQuiesceReturns, DockerStop,
                    DockerRemove, Applied, ApplyFails, UndoContainer, UndoPM2Returns,
                    RestoreContainer, RestorePM2Returns, CompleteSuccess, CompleteFailure,
                    CancelBegin
      <3> QED
        BY <3>1
    <2>2. CASE Quiescer
      <3>1. CASE UNCHANGED run
        BY <3>1
      <3>2. CASE QuiesceStop
        BY <3>2 DEF QuiesceStop, IInv, TypeOK, WorldTypeOK
      <3>3. CASE RecoverStart
        BY <3>3 DEF RecoverStart, StartedAs, IsLast, Targets, IInv, TypeOK, WorldTypeOK, StartInv
      <3> QED
        BY <2>2, <3>1, <3>2, <3>3
           DEF Quiescer, ReadInventory, Quiesce, Recover, QuiesceInitial, QuiesceNoopFinal,
               QuiescePreStop, QuiesceStopProof, StopProofTimesOut, QuiesceFinal, RecoverBefore,
               RecoverProof, RecoveryProofTimesOut
    <2>3. CASE Surroundings
      BY <2>3 DEF Surroundings, PortReleased, PortBound, ExpireRecover, Respawn, OperatorStops,
                  ForeignBinds, Disturb, IInv, TypeOK, WorldTypeOK
    <2> QED
      BY <2>1, <2>2, <2>3 DEF Next
  <1> QED
    BY <1>1, Invariance, PTL DEF Spec, StartsOnlyWhatItStopped

-----------------------------------------------------------------------------
(* The handoff implements MigrationLease.                                   *)

\* What a lease says of the legacy deployment: undisturbed, it is so.
LeaseIsTrue ==
    disturbed = 0 =>
        /\ LeaseState \in {"live", "released"} => LegacyState = "quiet"
        /\ LeaseState \in {"refused", "recovered"} => LegacyState = "serving"

\* The results of Begin and of the completions.
Returns ==
    \/ LeaseState = "none" /\ LeaseState' \in {"live", "refused", "salvage", "dropped"}
    \/ LeaseState = "live" /\ LeaseState' \in {"released", "recovering"}
    \/ LeaseState = "salvage" /\ LeaseState' \in {"abandoned", "recovering"}
    \/ LeaseState = "recovering" /\ LeaseState' \in {"recovered", "unproven"}

\* What the legacy deployment consists of.
deployment == <<run, socket, disturbed, captured, acked, container>>

\* The invariant makes what a lease says true.
LEMMA LeaseTruth == IInv => LeaseIsTrue
  <1> USE DEF IInv, TypeOK, QuiescerTypeOK, HandoffTypeOK, LeaseState, BeginResult,
              CompletionResult
  <1> SUFFICES ASSUME IInv, disturbed = 0
               PROVE  /\ LeaseState \in {"live", "released"} => LegacyState = "quiet"
                      /\ LeaseState \in {"refused", "recovered"} => LegacyState = "serving"
    BY DEF LeaseIsTrue
  <1>1. ASSUME LeaseState \in {"live", "released"} PROVE LegacyState = "quiet"
    <2>1. hpc = "leased"
      BY <1>1 DEF LeaseInv
    <2>2. /\ container # "running" /\ acked = Captured
          /\ \A s \in Captured : run[s] = 0 /\ socket[s] = 0
      BY <2>1 DEF QuietInv, EvidenceInv, CompleteQuiescence, Captured, ContainerInv
    <2> QED
      BY <2>2 DEF LegacyState
  <1>2. ASSUME LeaseState \in {"refused", "recovered"} PROVE LegacyState = "serving"
    <2>1. acked \subseteq restored /\ container = "running"
      BY <1>2 DEF LeaseInv, ContainerInv
    <2> QED
      BY <2>1 DEF RestoredInv, LegacyState
  <1> QED
    BY <1>1, <1>2

\* A result of Begin touches nothing.
LEMMA BeginReturns ==
  ASSUME IInv, Revalidate \/ QuiesceReturns \/ UndoQuiesceReturns \/ DockerStop \/ DockerRemove
               \/ Applied \/ UndoContainer \/ UndoPM2Returns
  PROVE  LeaseState' = LeaseState \/ (Returns /\ UNCHANGED deployment)
  <1>1. hpc \in BeginSteps /\ ~consumed /\ consumed' = consumed
    BY DEF IInv, LeaseInv, Revalidate, QuiesceReturns, UndoQuiesceReturns, DockerStop,
           DockerRemove, Applied, ApplyFails, UndoContainer, UndoPM2Returns
  <1>2. CASE hpc' \in BeginSteps
    BY <1>1, <1>2 DEF LeaseState, BeginResult
  <1>3. CASE hpc' \notin BeginSteps
    <2>1. UNCHANGED deployment /\ hpc' \in BeginReturned
      BY <1>3 DEF deployment, Revalidate, QuiesceReturns, UndoQuiesceReturns, DockerStop,
                  DockerRemove, Applied, ApplyFails, UndoContainer, UndoPM2Returns
    <2> QED
      BY <1>1, <2>1 DEF Returns, LeaseState, BeginResult
  <1> QED
    BY <1>2, <1>3

\* The first completion consumes the lease, any other changes nothing.
LEMMA CompletionReturns ==
  ASSUME IInv, CompleteSuccess \/ CompleteFailure \/ RestoreContainer \/ RestorePM2Returns
  PROVE  LeaseState' = LeaseState \/ (Returns /\ UNCHANGED deployment)
  <1> USE DEF LeaseState, BeginResult, CompletionResult
  <1>1. CASE AlreadyConsumed /\ (CompleteSuccess \/ CompleteFailure)
    <2>1. /\ UNCHANGED <<hpc, lease, consumed, winner>>
          /\ reports' \in {reports, reports \union {"none"}}
      BY <1>1 DEF AlreadyConsumed, CompleteSuccess, CompleteFailure, Consume
    <2> QED
      BY <1>1, <2>1 DEF AlreadyConsumed
  <1>2. CASE lease # "none" /\ ~consumed /\ (CompleteSuccess \/ CompleteFailure)
    <2>1. hpc \in {"leased", "failedLeased"} /\ lease \in {"full", "pm2Only"}
      BY <1>2 DEF IInv, TypeOK, HandoffTypeOK, LeaseInv
    <2>2. UNCHANGED <<deployment, lease>> /\ consumed' /\ winner' \in {"success", "failure"}
          /\ (winner' = "failure" => hpc' \in CompletionSteps)
      BY <1>2 DEF deployment, CompleteSuccess, CompleteFailure, Consume, AlreadyConsumed
    <2> QED
      BY <1>2, <2>1, <2>2 DEF Returns
  <1>3. CASE RestoreContainer
    <2>1. consumed /\ winner = "failure"
      BY <1>3 DEF RestoreContainer, IInv, LeaseInv
    <2> QED
      BY <1>3, <2>1 DEF RestoreContainer
  <1>4. CASE RestorePM2Returns
    <2>1. consumed /\ winner = "failure"
      BY <1>4 DEF RestorePM2Returns, IInv, LeaseInv
    <2> QED
      BY <1>4, <2>1 DEF RestorePM2Returns, Returns, deployment
  <1> QED
    BY <1>1, <1>2, <1>3, <1>4 DEF CompleteSuccess, CompleteFailure, Consume, AlreadyConsumed

\* Nothing but a call's return changes the lease, and once disturbed is disturbed.
LEMMA LeaseSteps ==
  ASSUME IInv, Next
  PROVE  /\ LeaseState' = LeaseState \/ (Returns /\ UNCHANGED deployment)
         /\ disturbed # 0 => disturbed' # 0
  <1>1. CASE Coordinator \/ CompleteSuccess \/ CompleteFailure
    <2>1. UNCHANGED disturbed
      BY <1>1 DEF Coordinator, Revalidate, QuiesceReturns, UndoQuiesceReturns, DockerStop,
                  DockerRemove, Applied, ApplyFails, UndoContainer, UndoPM2Returns,
                  RestoreContainer, RestorePM2Returns, CompleteSuccess, CompleteFailure
    <2> QED
      BY <1>1, <2>1, BeginReturns, CompletionReturns DEF Coordinator
  <1>2. CASE Quiescer \/ CancelBegin \/ (Surroundings /\ UNCHANGED handoff)
    <2>1. UNCHANGED handoff
      BY <1>2 DEF Quiescer, CancelBegin
    <2>2. disturbed' \in {disturbed, disturbed + 1}
      BY <1>2 DEF Quiescer, ReadInventory, Quiesce, Recover, QuiesceInitial, QuiesceNoopFinal,
                  QuiescePreStop, QuiesceStop, QuiesceStopProof, StopProofTimesOut, QuiesceFinal,
                  RecoverBefore, RecoverStart, RecoverProof, RecoveryProofTimesOut, CancelBegin,
                  Surroundings, PortReleased, PortBound, ExpireRecover, Respawn, OperatorStops,
                  ForeignBinds, Disturb
    <2>3. disturbed # 0 => disturbed' # 0
      BY <2>2, DisturbancesAssumption DEF IInv, TypeOK, WorldTypeOK
    <2> QED
      BY <2>1, <2>3 DEF LeaseState, BeginResult, CompletionResult
  <1> QED
    BY <1>1, <1>2 DEF Next

\* A granted lease stands for a quiet deployment, while it is live and once it was released;
\* a refusal and a verified recovery stand for one that serves; a lease is consumed once.
THEOREM HandoffImplementsLease == Spec => ImplementsLease
  <1>1. HandoffInit => Lease!Init
    BY DEF HandoffInit, Init, Lease!Init, LegacyState, LeaseState, BeginResult
  <1>2. IInv /\ LeaseIsTrue /\ LeaseIsTrue' /\ [Next]_vars => [Lease!Next]_(Lease!vars)
    <2> SUFFICES ASSUME IInv, LeaseIsTrue, LeaseIsTrue', [Next]_vars
                 PROVE  [Lease!Next]_(Lease!vars)
      OBVIOUS
    <2>1. CASE UNCHANGED vars
      BY <2>1 DEF Lease!vars, LegacyState, LeaseState, BeginResult, CompletionResult, Captured,
                  Serving
    <2>2. CASE Next
      <3>1. /\ LeaseState' = LeaseState \/ (Returns /\ UNCHANGED deployment)
            /\ disturbed # 0 => disturbed' # 0
        BY <2>2, LeaseSteps
      <3>2. LegacyState' \in Lease!Legacy
        BY DEF LegacyState, Lease!Legacy
      <3>3. CASE LeaseState' = LeaseState /\ disturbed' # 0
        BY <3>2, <3>3 DEF Lease!Next, Lease!Disturb
      <3>4. CASE LeaseState' = LeaseState /\ disturbed' = 0
        <4>1. disturbed = 0
          BY <3>1, <3>4
        <4>2. CASE LeaseState \in Lease!Unsettled
          BY <3>2, <3>4, <4>1, <4>2 DEF Lease!Next, Lease!Work
        <4>3. CASE LeaseState \notin Lease!Unsettled
          <5>1. LeaseState \in {"live", "released", "refused", "recovered"}
            BY <4>3 DEF Lease!Unsettled, LeaseState, BeginResult, CompletionResult
          <5>2. LegacyState' = LegacyState
            BY <3>4, <4>1, <5>1 DEF LeaseIsTrue
          <5> QED
            BY <3>4, <4>1, <5>2 DEF Lease!vars
        <4> QED
          BY <4>2, <4>3
      <3>5. CASE Returns /\ UNCHANGED deployment
        <4>1. LegacyState' = LegacyState /\ disturbed' = disturbed
          BY <3>5 DEF deployment, LegacyState, Captured, Serving
        <4> QED
          BY <3>5, <4>1
             DEF Returns, LeaseIsTrue, Lease!Next, Lease!Return, Lease!Grant, Lease!Refuse,
                 Lease!Fail, Lease!Release, Lease!Recover, Lease!Verify, Lease!Promise
      <3> QED
        BY <3>1, <3>3, <3>4, <3>5
    <2> QED
      BY <2>1, <2>2
  <1> HIDE DEF IInv, LeaseIsTrue
  <1> QED
    BY <1>1, <1>2, LeaseTruth, Invariance, PTL DEF Spec, ImplementsLease, Lease!Spec
=============================================================================
