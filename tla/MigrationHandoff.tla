--------------------------- MODULE MigrationHandoff ---------------------------
(***************************************************************************)
(* PreInstallMigrationCoordinator (internal/migration/handoff.go) and the  *)
(* legacy container controller (disposition.go), over PM2Quiescence: Begin *)
(* revalidates the legacy backup, quiesces PM2, stops or removes the       *)
(* legacy database container and hands out a lease; CompleteSuccess and    *)
(* CompleteFailure consume it, the second with a recovery.                 *)
(*                                                                         *)
(* Begin runs once.  Completions come from commands of the installer's     *)
(* user interface, which run concurrently: any number of either kind, up   *)
(* to MaxCompletions, may be issued at any time after Begin returns.       *)
(***************************************************************************)
EXTENDS PM2Quiescence

CONSTANT MaxCompletions   \* bound: completions issued on one lease

ASSUME CompletionsAssumption == MaxCompletions \in Nat

VARIABLES
    hpc,          \* the step of Begin or of the completion that consumed the lease
    disposition,  \* what to do with the legacy container: "stop" or "remove"
    container,    \* the legacy container
    stoppedCode,  \* Apply returned DispositionStoppedCode
    reason,       \* why Begin failed
    lease,        \* the lease Begin returned
    consumed,     \* lease.consumed
    winner,       \* the completion that consumed it
    containerOK,  \* CompleteFailure's container recovery was verified
    reports,      \* the codes completions have returned
    completions   \* how many were issued

handoff == <<hpc, disposition, container, stoppedCode, reason, lease, consumed,
             winner, containerOK, reports, completions>>
vars == <<pm2vars, handoff>>

BeginSteps == {"revalidate", "quiescing", "undoQuiesce", "dockerStop", "dockerRemove",
               "applied", "undoContainer", "undoPM2"}
BeginReturned == {"failed", "leased", "failedLeased"}
CompletionSteps == {"restoreContainer", "restorePM2"}
Reports == {"none", "pm2-recovery-verified", "pm2-recovery-unproven", "pm2-recovery-invalid",
            "legacy-container-removed-manual-recovery", "legacy-container-recovery-unproven"}

HandoffInit ==
    /\ Init
    /\ hpc = "revalidate" /\ disposition \in {"stop", "remove"} /\ container = "running"
    /\ stoppedCode = FALSE /\ reason = "none"
    /\ lease = "none" /\ consumed = FALSE /\ winner = "none"
    /\ containerOK = FALSE /\ reports = {} /\ completions = 0

-----------------------------------------------------------------------------
(* Begin: the backup, then PM2.                                             *)

leaseVars == <<lease, consumed, winner, containerOK, reports, completions>>

Fails(why) == hpc' = "failed" /\ reason' = why

Revalidate ==
    /\ hpc = "revalidate"
    /\ \/ ~cancelled /\ hpc' = "quiescing" /\ CallQuiesce /\ UNCHANGED reason
       \/ Fails("backup") /\ UNCHANGED pm2vars
    /\ UNCHANGED <<disposition, container, stoppedCode, leaseVars>>

\* completeQuiescence: a verified no-op, or every captured service verified stopped.
CompleteQuiescence ==
    \/ noop /\ Captured = {} /\ acked = {}
    \/ ~noop /\ Captured # {} /\ acked = Captured /\ verified = acked

QuiesceReturns ==
    /\ hpc = "quiescing" /\ qpc = "returned"
    /\ IF qcode = "ok" /\ ~cancelled /\ CompleteQuiescence
       THEN hpc' = "dockerStop" /\ UNCHANGED <<pm2vars, reason>>
       ELSE IF acked # {} THEN hpc' = "undoQuiesce" /\ CallRecover /\ UNCHANGED reason
       ELSE Fails("quiescence") /\ UNCHANGED pm2vars
    /\ UNCHANGED <<disposition, container, stoppedCode, leaseVars>>

\* An unproven recovery keeps the evidence alive in a PM2-only lease.
UndoQuiesceReturns ==
    /\ hpc = "undoQuiesce" /\ qpc = "returned"
    /\ reason' = "quiescence"
    /\ IF qcode = "pm2-recovery-verified" THEN hpc' = "failed" /\ UNCHANGED lease
       ELSE hpc' = "failedLeased" /\ lease' = "pm2Only"
    /\ UNCHANGED <<pm2vars, disposition, container, stoppedCode, consumed, winner,
                   containerOK, reports, completions>>

-----------------------------------------------------------------------------
(* Begin: the container.                                                    *)

\* The container is recovered only after a removal that failed once it was stopped.
ApplyFails(stopped) ==
    /\ stoppedCode' = stopped /\ reason' = "container"
    /\ IF disposition = "remove" /\ stopped
       THEN hpc' = "undoContainer" /\ UNCHANGED pm2vars
       ELSE hpc' = "undoPM2" /\ CallRecover

\* A failed docker command may have been carried out.
DockerStop ==
    /\ hpc = "dockerStop"
    /\ \/ /\ ~cancelled /\ container' = "stopped"
          /\ hpc' = IF disposition = "remove" THEN "dockerRemove" ELSE "applied"
          /\ stoppedCode' = (disposition = "stop") /\ UNCHANGED <<pm2vars, reason>>
       \/ container' \in {"running", "stopped"} /\ ApplyFails(FALSE)
    /\ UNCHANGED <<disposition, leaseVars>>

DockerRemove ==
    /\ hpc = "dockerRemove"
    /\ \/ /\ ~cancelled /\ container' = "removed"
          /\ hpc' = "applied" /\ UNCHANGED <<pm2vars, stoppedCode, reason>>
       \/ container' \in {"stopped", "removed"} /\ ApplyFails(TRUE)
    /\ UNCHANGED <<disposition, leaseVars>>

\* Apply returned without an error; Begin looks at its context once more.
Applied ==
    /\ hpc = "applied"
    /\ IF cancelled THEN ApplyFails(stoppedCode) /\ UNCHANGED lease
       ELSE hpc' = "leased" /\ lease' = "full" /\ UNCHANGED <<pm2vars, stoppedCode, reason>>
    /\ UNCHANGED <<disposition, container, consumed, winner, containerOK, reports, completions>>

\* Container.Recover with DispositionStop: docker start, then docker inspect.
ContainerRecovered(ok) ==
    \/ ok /\ container # "removed" /\ container' = "running"
    \/ ~ok /\ container' \in {container} \union (IF container = "removed" THEN {} ELSE {"running"})

UndoContainer ==
    /\ hpc = "undoContainer"
    /\ \E ok \in BOOLEAN : ContainerRecovered(ok)
    /\ hpc' = "undoPM2" /\ CallRecover
    /\ UNCHANGED <<disposition, stoppedCode, reason, leaseVars>>

\* Whatever the recovery returned, Begin returns its error and no lease.
UndoPM2Returns ==
    /\ hpc = "undoPM2" /\ qpc = "returned" /\ hpc' = "failed"
    /\ UNCHANGED <<pm2vars, disposition, container, stoppedCode, reason, leaseVars>>

-----------------------------------------------------------------------------
(* Completions.                                                             *)

\* Mutant: a completion does not see that another one has consumed the lease.
MutConsume(who) ==
    /\ lease # "none"
    /\ consumed' = TRUE /\ winner' = who

\* consume, under the lease's mutex: TRUE for the first completion only.
Consume(who) ==
    /\ lease # "none" /\ ~consumed
    /\ consumed' = TRUE /\ winner' = who

AlreadyConsumed == lease # "none" /\ consumed /\ UNCHANGED <<consumed, winner>>

CompleteSuccess ==
    /\ completions < MaxCompletions /\ completions' = completions + 1
    /\ Consume("success") \/ AlreadyConsumed
    /\ UNCHANGED <<pm2vars, hpc, disposition, container, stoppedCode, reason, lease,
                   containerOK, reports>>

\* The completion that comes second returns the zero PM2Recovery and no error.
CompleteFailure ==
    /\ completions < MaxCompletions /\ completions' = completions + 1
    /\ \/ /\ Consume("failure")
          /\ IF lease = "pm2Only"
             THEN containerOK' = TRUE /\ hpc' = "restorePM2" /\ CallRecover
             ELSE hpc' = "restoreContainer" /\ UNCHANGED <<pm2vars, containerOK>>
          /\ UNCHANGED reports
       \/ AlreadyConsumed /\ reports' = reports \union {"none"}
          /\ UNCHANGED <<pm2vars, hpc, containerOK>>
    /\ UNCHANGED <<disposition, container, stoppedCode, reason, lease>>

\* Container.Recover under a context of its own; a removed one is left to the operator.
RestoreContainer ==
    /\ hpc = "restoreContainer"
    /\ \/ disposition = "remove" /\ containerOK' = FALSE /\ UNCHANGED container
       \/ /\ disposition = "stop"
          /\ \E ok \in BOOLEAN : containerOK' = ok /\ ContainerRecovered(ok)
    /\ hpc' = "restorePM2" /\ CallRecover
    /\ UNCHANGED <<disposition, stoppedCode, reason, lease, consumed, winner, reports, completions>>

RecoveryCode ==
    IF lease = "full" /\ disposition = "remove" THEN "legacy-container-removed-manual-recovery"
    ELSE IF ~containerOK THEN "legacy-container-recovery-unproven"
    ELSE qcode

RestorePM2Returns ==
    /\ hpc = "restorePM2" /\ qpc = "returned" /\ hpc' = "completed"
    /\ reports' = reports \union {RecoveryCode}
    /\ UNCHANGED <<pm2vars, disposition, container, stoppedCode, reason, lease, consumed,
                   winner, containerOK, completions>>

-----------------------------------------------------------------------------
CancelBegin ==
    /\ hpc \in BeginSteps /\ ~cancelled /\ cancelled' = TRUE
    /\ UNCHANGED <<world, qpc, snapshot, evidence, restored, qcode, expired, handoff>>

Coordinator ==
    \/ Revalidate \/ QuiesceReturns \/ UndoQuiesceReturns
    \/ DockerStop \/ DockerRemove \/ Applied \/ UndoContainer \/ UndoPM2Returns
    \/ RestoreContainer \/ RestorePM2Returns

Quiescer == (ReadInventory \/ Quiesce \/ Recover) /\ UNCHANGED handoff

Next ==
    \/ Coordinator \/ Quiescer \/ CompleteSuccess \/ CompleteFailure
    \/ CancelBegin \/ (Surroundings /\ UNCHANGED handoff)

\* Commands end at their timeouts, and so do the two polling loops: their deadline is
\* not put off by another turn of the loop.
Fairness ==
    /\ WF_vars(Coordinator) /\ WF_vars(Quiescer)
    /\ WF_vars(StopProofTimesOut /\ UNCHANGED handoff)
    /\ WF_vars(RecoveryProofTimesOut /\ UNCHANGED handoff)

Spec == HandoffInit /\ [][Next]_vars /\ Fairness

-----------------------------------------------------------------------------
\* The types of the handoff.
HandoffTypeOK ==
    /\ hpc \in BeginSteps \union BeginReturned \union CompletionSteps \union {"completed"}
    /\ disposition \in {"stop", "remove"} /\ container \in {"running", "stopped", "removed"}
    /\ stoppedCode \in BOOLEAN /\ reason \in {"none", "backup", "quiescence", "container"}
    /\ lease \in {"none", "full", "pm2Only"} /\ consumed \in BOOLEAN
    /\ winner \in {"none", "success", "failure"} /\ containerOK \in BOOLEAN
    /\ reports \subseteq Reports /\ completions \in 0..MaxCompletions

TypeOK == WorldTypeOK /\ QuiescerTypeOK /\ HandoffTypeOK

Serving(s) == run[s] # 0 /\ run[s] # captured[s] /\ socket[s] = run[s]

\* While a full lease is live, every captured service is down with its port free, and
\* the legacy database container is not running: the installation may use the ports.
LeaseMeansQuiet ==
    lease = "full" /\ ~consumed /\ disturbed = 0 =>
        /\ \A s \in Captured : run[s] = 0 /\ socket[s] = 0
        /\ acked = Captured /\ container # "running"

\* A recovery reported as verified has every acknowledged service running again, as a
\* new incarnation on its own port; where CompleteFailure reports it, the container runs
\* again as well.
VerifiedMeansServing ==
    disturbed = 0 =>
        /\ qcode = "pm2-recovery-verified" \/ "pm2-recovery-verified" \in reports =>
              \A s \in acked : Serving(s)
        /\ "pm2-recovery-verified" \in reports => container = "running"

\* A Begin that fails in the quiescence and hands out no lease has left every service
\* whose stop it acknowledged serving again.
QuiescenceFailureCompensated ==
    hpc = "failed" /\ reason \in {"backup", "quiescence"} /\ disturbed = 0 =>
        container = "running" /\ \A s \in acked : Serving(s)

\* Whatever others do meanwhile, the installer starts only services it has seen stop, also
\* when a recovery is repeated on the evidence of one that failed half-way; undisturbed,
\* it never starts one that is running.
StartsOnlyWhatItStopped ==
    [][disturbed' = disturbed => \A s \in Services :
          run'[s] \notin {0, run[s]} => s \in acked /\ (disturbed = 0 => run[s] = 0)]_vars

\* Begin returns, and so does the CompleteFailure that consumed its lease, whatever is
\* cancelled, fails or never answers: the services may never come up or go down, and the
\* proofs, the container commands and the compensations still end.
CallsReturn ==
    /\ <>(hpc \in BeginReturned)
    /\ (consumed /\ winner = "failure") ~> (hpc = "completed")

-----------------------------------------------------------------------------
(* Refinement: the handoff implements MigrationLease.                       *)

\* What the installer has proof of: it knows of a service that it stopped only when the
\* stop was acknowledged.
LegacyState ==
    IF container # "running" /\ acked = Captured /\ \A s \in Captured : run[s] = 0 /\ socket[s] = 0
    THEN "quiet"
    ELSE IF container = "running" /\ \A s \in acked : Serving(s) THEN "serving"
    ELSE "between"

BeginResult ==
    IF hpc \in BeginSteps THEN "none"
    ELSE IF hpc = "failed" THEN IF reason \in {"backup", "quiescence"} THEN "refused" ELSE "dropped"
    ELSE IF lease = "full" THEN "live" ELSE "salvage"

CompletionResult ==
    IF winner = "success" THEN IF lease = "full" THEN "released" ELSE "abandoned"
    ELSE IF hpc # "completed" THEN "recovering"
    ELSE IF "pm2-recovery-verified" \in reports THEN "recovered" ELSE "unproven"

LeaseState == IF consumed THEN CompletionResult ELSE BeginResult

Lease == INSTANCE MigrationLease
         WITH legacy <- LegacyState, lease <- LeaseState, disturbed <- disturbed # 0

\* Every run of the handoff is a run of MigrationLease: a lease is granted on a quiet
\* deployment, which stays so while the lease is live and after its release, whatever
\* completions come late; a refusal and a verified recovery are final; and a lease is
\* consumed once.
ImplementsLease == Lease!Spec

-----------------------------------------------------------------------------
(* What the change's documents and the program's own texts say, and the     *)
(* code does not do.                                                        *)

\* design.md:218: a failure after a stop recovers the acknowledged set, and design.md:244:
\* no path silently drops a live lease.  A Begin without a lease has nothing left stopped.
NoLeaseIsDropped ==
    hpc = "failed" => \A s \in acked : Serving(s)

\* migration_quiescence.go:168: "Press Escape to cancel safely".  A cancelled Begin that
\* was to stop the container leaves no lease and leaves the container as it was.
CancelledBeginKeepsContainer ==
    hpc = "failed" /\ cancelled /\ disposition = "stop" => container = "running"

\* spec.md:334-335: no further stop once a process respawns, and no replacement chased.
ReplacementSpared ==
    [][\A s \in Services : acked' = acked \union {s} /\ s \notin acked =>
          run[s] \in {0, captured[s]}]_vars
=============================================================================
