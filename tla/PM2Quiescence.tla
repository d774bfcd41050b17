----------------------------- MODULE PM2Quiescence -----------------------------
(***************************************************************************)
(* PM2Quiescer (internal/installation/pm2_quiescence.go): Quiesce proves   *)
(* and stops the legacy PM2 services one at a time, Recover restarts the   *)
(* ones whose stop was acknowledged, in the reverse order.                 *)
(*                                                                         *)
(* A service is its PM2 id; each has one contract port.  An incarnation    *)
(* (PID and start ticks) is a positive number, and 0 stands for "none".    *)
(* Processes and Evidence are ordered by PMID, so the captured set and the *)
(* acknowledged set determine them.  A snapshot is two reads: `pm2 jlist`, *)
(* then `ss` together with /proc, and the services move between the two.   *)
(* Names and paths are left out: a record whose path has drifted fails the *)
(* evaluation it is in, which every evaluation may do.  MigrationHandoff   *)
(* makes the calls.                                                        *)
(***************************************************************************)
EXTENDS Integers, FiniteSets

CONSTANTS
    Services,        \* the PM2 ids of the legacy services
    MaxGen,          \* bound: incarnations of one service
    MaxDisturbances  \* bound: acts of operators, autorestart and other programs

ASSUME ServicesAssumption == Services \subseteq Nat /\ IsFiniteSet(Services)
ASSUME MaxGenAssumption == MaxGen \in Nat /\ MaxGen >= 1
ASSUME DisturbancesAssumption == MaxDisturbances \in Nat

VARIABLES
    run,       \* the incarnation PM2 reports online, 0 when it reports "stopped"
    last,      \* the last incarnation of each service
    socket,    \* who listens on the service's port: 0, an incarnation, or Foreign
    disturbed, \* how many acts of others there have been
    qpc,       \* the step of the call in flight, "idle" or "returned"
    invRead,   \* the snapshot in progress has its PM2 records
    inv,       \* those records
    captured,  \* Processes: the captured incarnation of each service, 0 if not captured
    acked,     \* Evidence: the services whose stop command succeeded
    verified,  \* Evidence with StopVerified
    noop,      \* NoopVerified
    restored,  \* the services this Recover has proved
    qcode,     \* the QuiescenceError or PM2Recovery code, "ok" for Quiesce's nil error
    cancelled, \* Quiesce's context has ended
    expired    \* Recover's context has ended

world    == <<run, last, socket, disturbed>>
snapshot == <<invRead, inv>>
evidence == <<captured, acked, verified, noop>>
pm2vars  == <<world, qpc, snapshot, evidence, restored, qcode, cancelled, expired>>

Foreign == MaxGen + 1
QuiesceSteps  == {"initial", "noopFinal", "prestop", "stop", "stopProof", "final"}
RecoverSteps  == {"recoverBefore", "recoverStart", "recoverProof"}
SnapshotSteps == (QuiesceSteps \union RecoverSteps) \ {"stop", "recoverStart"}
QuiesceCodes  == {"ok", "pm2-observation-unavailable", "pm2-correlation-failed",
                  "pm2-state-changed", "pm2-stop-failed", "pm2-stop-unproven",
                  "pm2-final-state-unproven"}
RecoverCodes  == {"pm2-recovery-invalid", "pm2-recovery-unproven", "pm2-recovery-verified"}

\* An online service listens on its port, or does not yet.
Init ==
    /\ run \in [Services -> {0, 1}]
    /\ last = [s \in Services |-> 1]
    /\ socket \in [Services -> {0, 1}] /\ \A s \in Services : socket[s] <= run[s]
    /\ disturbed = 0
    /\ qpc = "idle" /\ invRead = FALSE /\ inv = [s \in Services |-> 0]
    /\ captured = [s \in Services |-> 0]
    /\ acked = {} /\ verified = {} /\ noop = FALSE
    /\ restored = {} /\ qcode = "ok"
    /\ cancelled = FALSE /\ expired = FALSE

-----------------------------------------------------------------------------
(* Observation: the snapshot and what is read off it.                       *)

Live == IF qpc \in RecoverSteps THEN ~expired ELSE ~cancelled

\* A stopped incarnation still has its /proc entry while it holds its port.
Alive(s, gen) == run[s] = gen \/ socket[s] = gen

ReadInventory ==
    /\ qpc \in SnapshotSteps /\ ~invRead /\ Live
    /\ invRead' = TRUE /\ inv' = run
    /\ UNCHANGED <<world, qpc, evidence, restored, qcode, cancelled, expired>>

\* The second half of a snapshot succeeded: every online record has its /proc identity.
Observed == invRead /\ Live /\ \A s \in Services : inv[s] # 0 => Alive(s, inv[s])

\* Every evaluation ends the snapshot; a failing one may end before its first half did.
EndSnapshot == invRead' = FALSE /\ inv' = [s \in Services |-> 0]

\* CorrelatePM2: the services online and listening on their own port.  None selected is
\* an answer only when all relevant records are stopped and every port is free.
Selected == {s \in Services : inv[s] # 0 /\ socket[s] = inv[s]}

Correlates ==
    \/ Selected # {}
    \/ /\ \E s \in Services : inv[s] = 0
       /\ \A s \in Services : inv[s] = 0 /\ socket[s] = 0

\* Mutant: stopped in PM2 is enough, the port is not looked at.
MutStoppedAndReleased(targets) == \A s \in targets : inv[s] = 0

StoppedAndReleased(targets) == \A s \in targets : inv[s] = 0 /\ socket[s] = 0

\* The captured identities that are still to be stopped, and the next one, by PMID.
Captured == {s \in Services : captured[s] # 0}
Pending  == Captured \ acked
IsFirst(s, set) == s \in set /\ \A t \in set : s <= t
IsLast(s, set)  == s \in set /\ \A t \in set : s >= t

\* sameIdentities(active, pending)
SameIdentities == Selected = Pending /\ \A s \in Pending : inv[s] = captured[s]

ReturnCode(code) == qpc' = "returned" /\ qcode' = code

-----------------------------------------------------------------------------
(* Quiesce                                                                  *)

QuiesceInitial ==
    /\ qpc = "initial" /\ EndSnapshot
    /\ \/ /\ Observed /\ Correlates
          /\ captured' = [s \in Services |-> IF s \in Selected THEN inv[s] ELSE 0]
          /\ qpc' = IF Selected = {} THEN "noopFinal" ELSE "prestop"
          /\ UNCHANGED qcode
       \/ ReturnCode("pm2-observation-unavailable") /\ UNCHANGED captured
       \/ Observed /\ ReturnCode("pm2-correlation-failed") /\ UNCHANGED captured
    /\ UNCHANGED <<world, acked, verified, noop, restored, cancelled, expired>>

QuiesceNoopFinal ==
    /\ qpc = "noopFinal" /\ EndSnapshot
    /\ \/ /\ Observed /\ Correlates /\ Selected = {}
          /\ noop' = TRUE /\ ReturnCode("ok")
       \/ ReturnCode("pm2-observation-unavailable") /\ UNCHANGED noop
       \/ Observed /\ ReturnCode("pm2-final-state-unproven") /\ UNCHANGED noop
    /\ UNCHANGED <<world, captured, acked, verified, restored, cancelled, expired>>

QuiescePreStop ==
    /\ qpc = "prestop" /\ EndSnapshot
    /\ \/ Observed /\ Correlates /\ SameIdentities /\ qpc' = "stop" /\ UNCHANGED qcode
       \/ ReturnCode("pm2-observation-unavailable")
       \/ Observed /\ ReturnCode("pm2-state-changed")
    /\ UNCHANGED <<world, evidence, restored, cancelled, expired>>

\* `pm2 stop <id>` stops whatever incarnation runs under that id.  The evidence is
\* appended as soon as the command succeeds; a failed command may have stopped it.
QuiesceStop ==
    /\ qpc = "stop"
    /\ \E s \in Services :
         /\ IsFirst(s, Pending)
         /\ \/ /\ Live /\ run' = [run EXCEPT ![s] = 0]
               /\ acked' = acked \union {s} /\ qpc' = "stopProof" /\ UNCHANGED qcode
            \/ /\ run' \in {run, [run EXCEPT ![s] = 0]}
               /\ ReturnCode("pm2-stop-failed") /\ UNCHANGED acked
    /\ UNCHANGED <<last, socket, disturbed, snapshot, captured, verified, noop, restored, cancelled,
                   expired>>

\* waitForStoppedAndReleased polls until its proof or its deadline; the service it waits
\* for is the last one acknowledged.
QuiesceStopProof ==
    /\ qpc = "stopProof" /\ EndSnapshot
    /\ \/ /\ Observed /\ StoppedAndReleased(acked \ verified)
          /\ verified' = acked
          /\ qpc' = IF Pending = {} THEN "final" ELSE "prestop"
       \/ invRead /\ UNCHANGED <<qpc, verified>>
    /\ UNCHANGED <<world, captured, acked, noop, restored, qcode, cancelled, expired>>

\* Mutant: the polling loop ends only when its context does.
MutStopProofTimesOut ==
    /\ qpc = "stopProof" /\ cancelled /\ EndSnapshot
    /\ ReturnCode("pm2-stop-unproven")
    /\ UNCHANGED <<world, evidence, restored, cancelled, expired>>

StopProofTimesOut ==
    /\ qpc = "stopProof" /\ EndSnapshot
    /\ ReturnCode("pm2-stop-unproven")
    /\ UNCHANGED <<world, evidence, restored, cancelled, expired>>

QuiesceFinal ==
    /\ qpc = "final" /\ EndSnapshot
    /\ \/ Observed /\ StoppedAndReleased(Captured) /\ ReturnCode("ok")
       \/ ReturnCode("pm2-final-state-unproven")
    /\ UNCHANGED <<world, evidence, restored, cancelled, expired>>

-----------------------------------------------------------------------------
(* Recover                                                                  *)

\* Mutant: everything captured is recovered, acknowledged or not.
MutTargets == Captured \ restored

\* acknowledgedRecoveryTargets, minus what this call has already proved.
Targets == acked \ restored

\* Mutant: online in PM2 is enough, the port is not looked at.
MutRecovered(s) == inv[s] # 0 /\ inv[s] # captured[s]

\* An incarnation is proved recovered when PM2 reports a new one that owns the port.
Recovered(s) == inv[s] # 0 /\ inv[s] # captured[s] /\ socket[s] = inv[s]

RecoverBefore ==
    /\ qpc = "recoverBefore" /\ EndSnapshot
    /\ \E s \in Services :
         /\ IsLast(s, Targets)
         /\ \/ Observed /\ StoppedAndReleased({s}) /\ qpc' = "recoverStart" /\ UNCHANGED qcode
            \/ ReturnCode("pm2-recovery-unproven")
    /\ UNCHANGED <<world, evidence, restored, cancelled, expired>>

\* `pm2 start <id>` gives the service a new incarnation; a failed one may have, too.
StartedAs(s) == /\ last[s] < MaxGen
                /\ run' = [run EXCEPT ![s] = last[s] + 1]
                /\ last' = [last EXCEPT ![s] = last[s] + 1]

RecoverStart ==
    /\ qpc = "recoverStart"
    /\ \E s \in Services :
         /\ IsLast(s, Targets)
         /\ \/ Live /\ StartedAs(s) /\ qpc' = "recoverProof" /\ UNCHANGED qcode
            \/ /\ StartedAs(s) \/ UNCHANGED <<run, last>>
               /\ ReturnCode("pm2-recovery-unproven")
    /\ UNCHANGED <<socket, disturbed, snapshot, evidence, restored, cancelled, expired>>

RecoverProof ==
    /\ qpc = "recoverProof" /\ EndSnapshot
    /\ \E s \in Services :
         /\ IsLast(s, Targets)
         /\ \/ /\ Observed /\ Recovered(s)
               /\ restored' = restored \union {s}
               /\ IF Targets = {s} THEN ReturnCode("pm2-recovery-verified")
                  ELSE qpc' = "recoverBefore" /\ UNCHANGED qcode
            \/ invRead /\ UNCHANGED <<qpc, qcode, restored>>
    /\ UNCHANGED <<world, evidence, cancelled, expired>>

RecoveryProofTimesOut ==
    /\ qpc = "recoverProof" /\ EndSnapshot
    /\ ReturnCode("pm2-recovery-unproven")
    /\ UNCHANGED <<world, evidence, restored, cancelled, expired>>

-----------------------------------------------------------------------------
(* Calls.                                                                   *)

CallQuiesce ==
    /\ qpc' = "initial"
    /\ UNCHANGED <<world, snapshot, evidence, restored, qcode, cancelled, expired>>

\* A recovery has a context of its own.  With nothing to recover it returns at once.
CallRecover ==
    /\ restored' = {} /\ expired' = FALSE
    /\ IF noop THEN ReturnCode("pm2-recovery-verified")
       ELSE IF acked = {} THEN ReturnCode("pm2-recovery-invalid")
       ELSE qpc' = "recoverBefore" /\ UNCHANGED qcode
    /\ UNCHANGED <<world, snapshot, evidence, cancelled>>

Quiesce ==
    \/ QuiesceInitial \/ QuiesceNoopFinal \/ QuiescePreStop
    \/ QuiesceStop \/ QuiesceStopProof \/ StopProofTimesOut \/ QuiesceFinal

Recover == RecoverBefore \/ RecoverStart \/ RecoverProof \/ RecoveryProofTimesOut

-----------------------------------------------------------------------------
(* The services, the clock and everybody else.                              *)

PortReleased ==
    /\ \E s \in Services :
         /\ socket[s] \notin {0, run[s], Foreign}
         /\ socket' = [socket EXCEPT ![s] = 0]
    /\ UNCHANGED <<run, last, disturbed, qpc, snapshot, evidence, restored, qcode, cancelled,
                   expired>>

PortBound ==
    /\ \E s \in Services :
         /\ run[s] # 0 /\ socket[s] = 0
         /\ socket' = [socket EXCEPT ![s] = run[s]]
    /\ UNCHANGED <<run, last, disturbed, qpc, snapshot, evidence, restored, qcode, cancelled,
                   expired>>

ExpireRecover ==
    /\ qpc \in RecoverSteps /\ ~expired /\ expired' = TRUE
    /\ UNCHANGED <<world, qpc, snapshot, evidence, restored, qcode, cancelled>>

Disturb == disturbed < MaxDisturbances /\ disturbed' = disturbed + 1

Respawn ==
    /\ Disturb /\ \E s \in Services : StartedAs(s)
    /\ UNCHANGED <<socket, qpc, snapshot, evidence, restored, qcode, cancelled, expired>>

OperatorStops ==
    /\ Disturb
    /\ \E s \in Services : run[s] # 0 /\ run' = [run EXCEPT ![s] = 0]
    /\ UNCHANGED <<last, socket, qpc, snapshot, evidence, restored, qcode, cancelled, expired>>

ForeignBinds ==
    /\ Disturb
    /\ \E s \in Services : socket[s] = 0 /\ socket' = [socket EXCEPT ![s] = Foreign]
    /\ UNCHANGED <<run, last, qpc, snapshot, evidence, restored, qcode, cancelled, expired>>

Surroundings ==
    \/ PortReleased \/ PortBound \/ ExpireRecover
    \/ Respawn \/ OperatorStops \/ ForeignBinds

-----------------------------------------------------------------------------
\* The types of the services and their ports.
WorldTypeOK ==
    /\ run \in [Services -> 0..MaxGen] /\ last \in [Services -> 1..MaxGen]
    /\ socket \in [Services -> 0..Foreign] /\ disturbed \in 0..MaxDisturbances

\* The types of a call, and that stop evidence (verified) and recovery (restored) only ever
\* concern services whose stop was acknowledged.
QuiescerTypeOK ==
    /\ qpc \in {"idle", "returned"} \union QuiesceSteps \union RecoverSteps
    /\ invRead \in BOOLEAN /\ inv \in [Services -> 0..MaxGen]
    /\ captured \in [Services -> 0..MaxGen]
    /\ acked \subseteq Services /\ verified \subseteq acked /\ noop \in BOOLEAN
    /\ restored \subseteq acked /\ qcode \in QuiesceCodes \union RecoverCodes
    /\ cancelled \in BOOLEAN /\ expired \in BOOLEAN
=============================================================================
