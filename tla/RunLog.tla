------------------------------- MODULE RunLog --------------------------------
(***************************************************************************)
(* The installer's process from its arguments to its exit code             *)
(* (cmd/installer/main.go) and the diagnostic log it keeps meanwhile       *)
(* (internal/runlog): one file per run in a directory that all runs share. *)
(* Open creates a run's file and then prunes the directory, a listing and  *)
(* a removal at a time, while other runs do the same.                      *)
(*                                                                         *)
(* A log is known by its name, and names are ordered: by the time they     *)
(* carry, then by a random number.  The clock may be set back, so a new    *)
(* name may be any unused one.  What the commands do is in the modules     *)
(* HeadlessInstall and InstallerTUI; here they succeed or fail.            *)
(***************************************************************************)
EXTENDS Naturals, Sequences, FiniteSets

CONSTANTS Runs,      \* processes of the installer
          Keep,      \* logs kept in the directory (DefaultKeep is 20)
          Names,     \* the names of logs, numbers in the order of the names
          MaxEvents  \* bound: records the user interface writes

ASSUME RunLogAssumption ==
    /\ IsFiniteSet(Runs) /\ Keep \in Nat \ {0} /\ MaxEvents \in Nat
    /\ Names \subseteq Nat \ {0} /\ IsFiniteSet(Names)

VARIABLES pc,       \* per run, its next step
          route,    \* per run, what its arguments ask for
          name,     \* per run, the name of its log, 0 for none
          logs,     \* the logs in the directory
          doomed,   \* per run, the logs its pruning has still to remove
          records,  \* per run, what was written to its log, in order
          warning,  \* per run, the logger's warning
          success,  \* per run, the operation succeeded
          exit,     \* per run, its exit code, or "running" or "killed"
          orderly   \* no pruning was killed or failed for another reason than a race (history)

vars == <<pc, route, name, logs, doomed, records, warning, success, exit, orderly>>

\* "command" stands for update, restart and --dry-run, which take the same path.
Commands == {"command", "unattended"}
Routes == Commands \union {"interactive"}

Init ==
    /\ pc = [r \in Runs |-> "parse"] /\ route \in [Runs -> Routes]
    /\ name = [r \in Runs |-> 0]
    /\ logs \in SUBSET Names                     \* what earlier runs have left
    /\ doomed = [r \in Runs |-> <<>>] /\ records = [r \in Runs |-> <<>>]
    /\ warning = [r \in Runs |-> "none"] /\ success = [r \in Runs |-> FALSE]
    /\ exit = [r \in Runs |-> "running"] /\ orderly = TRUE

Goto(r, step) == pc' = [pc EXCEPT ![r] = step]

\* The process returns its exit code; the deferred Close syncs and closes the file.
Exits(r, code) == Goto(r, "ended") /\ exit' = [exit EXCEPT ![r] = code]

-----------------------------------------------------------------------------
(* runlog.Open and retain.                                                  *)

\* parseCLI and parseFlags: an error, --help and --version end the run.
Parse(r) ==
    /\ pc[r] = "parse"
    /\ \/ Goto(r, "create") /\ UNCHANGED exit
       \/ \E code \in {"0", "2"} : Exits(r, code)
    /\ UNCHANGED <<route, name, logs, doomed, records, warning, success, orderly>>

Newer(n, set) == {m \in set : m > n}

\* Open creates the file exclusively; where it fails the run goes on without a log.
Create(r) ==
    /\ pc[r] = "create"
    /\ \/ \E n \in Names \ logs :
             /\ n \notin {name[q] : q \in Runs}
             /\ name' = [name EXCEPT ![r] = n] /\ logs' = logs \union {n}
             /\ Goto(r, "list")
       \/ Goto(r, "startup") /\ UNCHANGED <<name, logs>>
    /\ UNCHANGED <<route, doomed, records, warning, success, exit, orderly>>

\* Mutant: the oldest log is removed first.
MutDescending(set) ==
    [i \in 1..Cardinality(set) |->
        CHOOSE n \in set : Cardinality(Newer(n, set)) = Cardinality(set) - i]

\* The members of a set of names in descending order.
Descending(set) ==
    [i \in 1..Cardinality(set) |-> CHOOSE n \in set : Cardinality(Newer(n, set)) = i - 1]

Unpruned(r) == warning' = [warning EXCEPT ![r] = "unpruned"] /\ Goto(r, "startup")

\* Mutant: the run does not spare its own log.
MutExcess(r) == {n \in logs : Cardinality(Newer(n, logs)) >= Keep}

\* names[keep:] of the listing, without the run's own log.
Excess(r) == {n \in logs : Cardinality(Newer(n, logs)) >= Keep} \ {name[r]}

\* retain lists the directory ...
List(r) ==
    /\ pc[r] = "list"
    /\ \/ /\ doomed' = [doomed EXCEPT ![r] = Descending(Excess(r))]
          /\ Goto(r, IF Excess(r) = {} THEN "startup" ELSE "prune")
          /\ UNCHANGED <<warning, orderly>>
       \/ Unpruned(r) /\ orderly' = FALSE /\ UNCHANGED doomed
    /\ UNCHANGED <<route, name, logs, records, success, exit>>

\* ... and removes one file after the other; the first one it cannot remove, because of
\* a fault or because another run was faster, ends it.
Prune(r) ==
    /\ pc[r] = "prune"
    /\ LET n == Head(doomed[r])
       IN \/ /\ n \in logs /\ logs' = logs \ {n}
             /\ doomed' = [doomed EXCEPT ![r] = Tail(@)]
             /\ Goto(r, IF Len(doomed[r]) = 1 THEN "startup" ELSE "prune")
             /\ UNCHANGED <<warning, orderly>>
          \/ /\ Unpruned(r)
             /\ orderly' = (orderly /\ n \notin logs)
             /\ doomed' = [doomed EXCEPT ![r] = <<>>] /\ UNCHANGED logs
    /\ UNCHANGED <<route, name, records, success, exit>>

-----------------------------------------------------------------------------
(* Log, and what main.go writes with it.                                    *)

\* Mutant: logging goes on after a write that failed.
MutLog(r, event) ==
    IF name[r] = 0 THEN UNCHANGED <<records, warning>>
    ELSE \/ /\ records' = [records EXCEPT ![r] = Append(@, event)]
            /\ UNCHANGED warning
         \/ /\ records' = [records EXCEPT ![r] = Append(@, "torn")]
            /\ warning' = [warning EXCEPT ![r] = "stopped"]

\* Log: nothing without a file or after a write that failed; a write fails with a part of
\* the record written, or with none of it.
Log(r, event) ==
    IF name[r] = 0 \/ warning[r] = "stopped" THEN UNCHANGED <<records, warning>>
    ELSE \/ /\ records' = [records EXCEPT ![r] = Append(@, event)]
            /\ UNCHANGED warning
         \/ /\ records' \in {records, [records EXCEPT ![r] = Append(@, "torn")]}
            /\ warning' = [warning EXCEPT ![r] = "stopped"]

Startup(r) ==
    /\ pc[r] = "startup"
    /\ Log(r, "startup")
    /\ Goto(r, IF route[r] \in Commands THEN "authorize" ELSE "terminal?")
    /\ UNCHANGED <<route, name, logs, doomed, success, exit, orderly>>

\* authorizeDocker, for the routes without a user interface.
Authorize(r) ==
    /\ pc[r] = "authorize"
    /\ \/ Log(r, "docker-auth") /\ Goto(r, "operate") /\ UNCHANGED exit
       \/ Log(r, "failure") /\ Exits(r, "1")
    /\ UNCHANGED <<route, name, logs, doomed, success, orderly>>

\* The command succeeds or fails; an unattended installation may ask to log in again.
Operate(r) ==
    /\ pc[r] = "operate"
    /\ \/ Log(r, "success") /\ success' = [success EXCEPT ![r] = TRUE] /\ Exits(r, "0")
       \/ /\ Log(r, "failure") /\ UNCHANGED success
          /\ \/ Exits(r, "1")
             \/ route[r] = "unattended" /\ Exits(r, "75")
    /\ UNCHANGED <<route, name, logs, doomed, orderly>>

\* The user interface needs a terminal.
CheckTTY(r) ==
    /\ pc[r] = "terminal?"
    /\ \/ Goto(r, "interface") /\ UNCHANGED exit
       \/ Exits(r, "2")
    /\ UNCHANGED <<route, name, logs, doomed, records, warning, success, orderly>>

\* The user interface logs its transitions, and how the installation ended.
Interact(r) ==
    /\ pc[r] = "interface" /\ Len(records[r]) < MaxEvents
    /\ \/ Log(r, "transition") /\ UNCHANGED success
       \/ Log(r, "success") /\ success' = [success EXCEPT ![r] = TRUE]
    /\ UNCHANGED <<pc, route, name, logs, doomed, exit, orderly>>

InterfaceEnds(r) ==
    /\ pc[r] = "interface"
    /\ \/ Exits(r, "0") /\ UNCHANGED <<records, warning>>
       \/ Log(r, "failure") /\ Exits(r, "1")
    /\ UNCHANGED <<route, name, logs, doomed, success, orderly>>

\* A signal ends the process anywhere.
Kill(r) ==
    /\ pc[r] # "ended" /\ Exits(r, "killed")
    /\ orderly' = (orderly /\ pc[r] \notin {"list", "prune"})
    /\ UNCHANGED <<route, name, logs, doomed, records, warning, success>>

Next == \E r \in Runs :
    \/ Parse(r) \/ Create(r) \/ List(r) \/ Prune(r) \/ Startup(r) \/ Authorize(r)
    \/ Operate(r) \/ CheckTTY(r) \/ Interact(r) \/ InterfaceEnds(r) \/ Kill(r)

Spec == Init /\ [][Next]_vars

-----------------------------------------------------------------------------
(* Properties.                                                              *)

\* A log disappears only in a step of another run, and only while Keep logs with later
\* names are in the directory, however many runs prune it at a time, each from a listing
\* of its own that the others have made stale.
PrunesOnlyOldLogs ==
    [][\A n \in logs \ logs' :
          /\ Cardinality(Newer(n, logs)) >= Keep
          /\ \A r \in Runs : name[r] = n => pc'[r] = pc[r]]_vars

\* The directory stays bounded although a run stops pruning at the first file that
\* another run has removed, and whatever the clocks say: of the runs that prune at a time
\* one goes on.  Once those that have created a log are through with their pruning, every
\* log beyond the latest Keep is one of theirs, which its own run has spared.
LogsBounded ==
    /\ orderly /\ \E r \in Runs : name[r] # 0
    /\ \A r \in Runs : pc[r] \notin {"list", "prune"}
    => \A n \in logs : Cardinality(Newer(n, logs)) >= Keep => \E r \in Runs : name[r] = n

\* What a log says is true: it begins with the startup, only its last record can be torn,
\* a success in it was one, and the run of a command that ended by itself, with a log that
\* was never interrupted, closes with the verdict of its exit code.
LogTellsTheRun ==
    \A r \in Runs : LET log == records[r] IN
        /\ log # <<>> => log[1] \in {"startup", "torn"}
        /\ \A i \in DOMAIN log :
              /\ log[i] = "torn" => i = Len(log)
              /\ log[i] = "success" => success[r]
        /\ route[r] \in Commands /\ exit[r] \in {"0", "1", "75"} /\ name[r] # 0
              /\ warning[r] # "stopped"
           => log[Len(log)] = IF exit[r] = "0" THEN "success" ELSE "failure"
=============================================================================
