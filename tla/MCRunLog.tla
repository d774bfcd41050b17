------------------------------- MODULE MCRunLog -------------------------------
(* Three runs prune the directory at a time; the first goes on to the end of  *)
(* its operation, of any kind, while the others get as far as their startup.  *)
EXTENDS RunLog, TLC

CONSTANTS r1, r2, r3

MCRuns == {r1, r2, r3}
MCNames == 1..4
Symmetry == Permutations({r2, r3})

MCInit == Init /\ route[r2] = "command" /\ route[r3] = "command"

MCNext ==
    \/ Parse(r1) \/ Create(r1) \/ List(r1) \/ Prune(r1) \/ Startup(r1) \/ Authorize(r1)
    \/ Operate(r1) \/ CheckTTY(r1) \/ Interact(r1) \/ InterfaceEnds(r1) \/ Kill(r1)
    \/ \E r \in {r2, r3} : Parse(r) \/ Create(r) \/ List(r) \/ Prune(r)

MCSpec == MCInit /\ [][MCNext]_vars
=============================================================================
