---------------------------- MODULE MigrationLease ----------------------------
(***************************************************************************)
(* What the pre-install handoff promises, without its calls and proofs.    *)
(* The legacy deployment serves, is quiet, or is somewhere in between.  A  *)
(* lease says which, and stands for it: while a lease is live, and for     *)
(* good once it was released, the legacy deployment stays quiet; after a   *)
(* refusal or a verified recovery it serves and keeps serving.  A lease is *)
(* consumed once.  Others may disturb the legacy deployment, and then      *)
(* nothing is promised about it.                                           *)
(***************************************************************************)
VARIABLES legacy,     \* the legacy deployment
          lease,      \* what Begin and the completions have returned
          disturbed   \* somebody else has started or stopped something

vars == <<legacy, lease, disturbed>>

Legacy == {"serving", "between", "quiet"}

\* Unsettled: work on the legacy deployment is under way, or its end was not proved.
Unsettled == {"none", "dropped", "salvage", "abandoned", "recovering", "unproven"}

Init == legacy = "serving" /\ lease = "none" /\ disturbed = FALSE

Promise(state) == legacy = state \/ disturbed

Work ==
    /\ lease \in Unsettled /\ legacy' \in Legacy
    /\ UNCHANGED <<lease, disturbed>>

\* Begin: a lease, a refusal that has undone everything, a lease for another attempt at
\* undoing it, or nothing, although it was not undone.
Grant  == lease = "none" /\ Promise("quiet") /\ lease' = "live"
Refuse == lease = "none" /\ Promise("serving") /\ lease' = "refused"
Fail   == lease = "none" /\ lease' \in {"salvage", "dropped"}

\* CompleteSuccess, which nobody should call on a salvaged lease.
Release ==
    \/ lease = "live" /\ lease' = "released"
    \/ lease = "salvage" /\ lease' = "abandoned"

\* CompleteFailure.
Recover == lease \in {"live", "salvage"} /\ lease' = "recovering"
Verify ==
    /\ lease = "recovering"
    /\ \/ Promise("serving") /\ lease' = "recovered"
       \/ lease' = "unproven"

Return == Grant \/ Refuse \/ Fail \/ Release \/ Recover \/ Verify

Disturb == disturbed' = TRUE /\ legacy' \in Legacy /\ UNCHANGED lease

Next == Work \/ (Return /\ UNCHANGED <<legacy, disturbed>>) \/ Disturb

Spec == Init /\ [][Next]_vars
=============================================================================
