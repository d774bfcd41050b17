--------------------------- MODULE ContainerDiscovery --------------------------
(***************************************************************************)
(* The container of the legacy database: DiscoverContainer of              *)
(* internal/migration/container_selector.go lists the containers, inspects *)
(* one after the other (container_inspector.go) and selects one by the     *)
(* resolved configuration; after the operator's confirmation the dump is   *)
(* taken from the configured address, not from the container that was      *)
(* selected.  Containers change meanwhile.  What the configuration is      *)
(* resolved to is left open here (module LegacyDiscovery resolves it).     *)
(***************************************************************************)
EXTENDS Naturals

CONSTANTS Containers,       \* numbers, in the order of the container IDs
          Loopback4,        \* addresses of 127.0.0.0/8
          OtherAddresses,   \* the host's other addresses
          MaxDisturbances   \* bound: changes to the containers meanwhile

ASSUME DiscoveryAssumption == Containers \subseteq Nat \ {0} /\ MaxDisturbances \in Nat
ASSUME AddressAssumption ==
    /\ "127.0.0.1" \in Loopback4
    /\ (Loopback4 \union OtherAddresses) \intersect {"localhost", "::1", "0.0.0.0", "::"} = {}

VARIABLES
    docker,                  \* the containers, as docker has them
    phase,                   \* of Preflight, and of the dump
    config,                  \* the ResolvedConfig
    candidates,              \* IDs still to inspect
    details,                 \* what inspect said, by ID
    failed,                  \* inspectionFailed
    decision,                \* the class of the error, or "planned"
    plan,                    \* the container selected, 0 for none
    dumped,                  \* the container whose database was dumped, 0 for none
    disturbances,            \* changes so far
    stale,                   \* containers that were inspected before the last change
    faults                   \* docker or the file failed (history)

discoveryVars == <<docker, phase, config, candidates, details, failed, decision, plan,
                   dumped, disturbances, stale, faults>>

Loopback == Loopback4 \union {"::1"}
Unspecified == {"0.0.0.0", "::"}
Family(ip) == IF ip \in {"::1", "::"} THEN 6 ELSE 4

\* What docker says of a container; an alias is a name.
ContainerStates ==
    [image : {"exact", "other"}, name : STRING, database : STRING, username : STRING,
     labels : {"none", "master", "foreign"}, mount : BOOLEAN,
     state : {"running", "stopped", "removed"},
     health : {"none", "healthy", "unhealthy", "starting"},
     aliases : SUBSET (STRING \ Loopback),
     ports : SUBSET [ip : STRING, hostPort : Nat, containerPort : Nat]]

\* What Resolve returns: nothing, or settings that are all given.
Unresolved == [ok |-> FALSE]
Resolved ==
    {Unresolved} \union
    [ok : {TRUE}, at : {0},
     value : [host : STRING \ {""}, database : STRING \ {""}, username : STRING \ {""},
              password : STRING \ {""}, port : 1..65535]]

-----------------------------------------------------------------------------
(* External: docker's port bindings, and what a client on the host reaches. *)

Exists(c) == docker[c].state # "removed"
Running(c) == docker[c].state = "running"

\* What docker inspect shows of a container: the configured bindings are in
\* NetworkSettings.Ports only while it runs, the networks' aliases always.
Shown(c) == IF Running(c) THEN docker[c] ELSE [docker[c] EXCEPT !.ports = {}]

Addresses(host) == IF host = "localhost" THEN {"127.0.0.1", "::1"} ELSE {host}

\* A socket bound at an unspecified address listens at all addresses of its family.
Listens(b, address) ==
    b.ip = address \/ (b.ip \in Unspecified /\ Family(b.ip) = Family(address))

Bound(c, host, port) ==
    \E b \in docker[c].ports, address \in Addresses(host) \intersect Loopback :
        b.hostPort = port /\ b.containerPort = 5432 /\ Listens(b, address)

Reached(host, port) == {c \in Containers : Running(c) /\ Bound(c, host, port)}

\* Two containers can run side by side: no address has a socket of both.
Compatible(c, d) ==
    \A b \in docker[c].ports, other \in docker[d].ports :
        b.hostPort = other.hostPort =>
            ~\E address \in Loopback \union OtherAddresses :
                Listens(b, address) /\ Listens(other, address)

\* What docker sees to: names are unique, and so are the sockets.
DockerConsistent ==
    \A c, d \in Containers :
        c # d /\ Exists(c) /\ Exists(d) =>
            /\ docker[c].name # docker[d].name
            /\ Running(c) /\ Running(d) => Compatible(c, d)

\* Where a discovery starts; the containers are the environment's.
DiscoveryInit ==
    /\ phase = "resolve" /\ config = Unresolved /\ candidates = {} /\ details = <<>>
    /\ failed = FALSE /\ decision = "none" /\ plan = 0 /\ dumped = 0
    /\ disturbances = 0 /\ stale = {} /\ faults = FALSE
    /\ docker \in [Containers -> ContainerStates] /\ DockerConsistent

-----------------------------------------------------------------------------
(* Preflight: the configuration, the list and the inspections.              *)

Ends(code) == phase' = "done" /\ decision' = code

\* Resolve: the file cannot be read, or says this (Unresolved: it is no configuration).
ResolvesTo(resolved) ==
    /\ phase = "resolve"
    /\ \/ /\ config' = resolved
          /\ IF resolved.ok THEN phase' = "list" /\ UNCHANGED decision ELSE Ends("config")
          /\ UNCHANGED faults
       \/ Ends("config") /\ faults' = TRUE /\ UNCHANGED config
    /\ UNCHANGED <<docker, candidates, details, failed, plan, dumped, disturbances, stale>>

\* The containers of the exact image.
Exact == {c \in Containers : Exists(c) /\ docker[c].image = "exact"}

\* Candidates.
ListCandidates ==
    /\ phase = "list"
    /\ \/ /\ candidates' = Exact
          /\ IF Exact = {} THEN Ends("noImage") ELSE phase' = "inspect" /\ UNCHANGED decision
          /\ UNCHANGED faults
       \/ /\ \E code \in {"permission", "precondition"} : Ends(code)
          /\ faults' = TRUE /\ UNCHANGED candidates
    /\ UNCHANGED <<docker, config, details, failed, plan, dumped, disturbances, stale>>

\* safeDetails refuses a binding without an address or with an impossible port.
Malformed(c) == \E b \in Shown(c).ports : b.ip = "" \/ b.hostPort \notin 1..65535

\* Inspect of the next candidate by ID, which may have been removed since it was listed.
Inspect ==
    /\ phase = "inspect"
    /\ \E c \in candidates :
          /\ \A d \in candidates : c <= d
          /\ candidates' = candidates \ {c}
          /\ \/ /\ Exists(c) /\ ~Malformed(c)
                /\ details' = [d \in DOMAIN details \union {c} |->
                                  IF d = c THEN Shown(c) ELSE details[d]]
                /\ UNCHANGED <<phase, failed, decision, faults>>
             \/ /\ ~Exists(c) \/ Malformed(c)
                /\ failed' = TRUE /\ UNCHANGED <<phase, details, decision, faults>>
             \/ failed' = TRUE /\ faults' = TRUE /\ UNCHANGED <<phase, details, decision>>
             \/ Ends("permission") /\ faults' = TRUE /\ UNCHANGED <<failed, details>>
    /\ UNCHANGED <<docker, config, plan, dumped, disturbances, stale>>

-----------------------------------------------------------------------------
(* The decision, from the details alone.                                    *)

\* loopbackFamily: localhost may be either.
Families(host) ==
    CASE host = "localhost" -> {4, 6} [] host \in Loopback -> {Family(host)} [] OTHER -> {}

\* Mutant: a binding at any address of the family will do.
MutBindingReachable(b, host) == Family(b.ip) \in Families(host)

BindingReachable(b, host) ==
    b.ip \in Loopback \union Unspecified /\ Family(b.ip) \in Families(host)

PublishedEndpoint(d) ==
    \E b \in d.ports : /\ b.hostPort = config.value.port /\ b.containerPort = 5432
                       /\ BindingReachable(b, config.value.host)

\* Aliases on the container's networks are endpoints at port 5432.
LocalMatch(d) == config.value.host \in d.aliases /\ config.value.port = 5432
LocalConflict(d) == config.value.host \in d.aliases /\ config.value.port # 5432

\* Mutant: the state is looked at before the endpoint.
MutCorrelate(d) ==
    IF d.database # config.value.database \/ d.username # config.value.username THEN "identity"
    ELSE IF d.labels = "foreign" THEN "identity"
    ELSE IF ~d.mount /\ d.labels # "master" THEN "unsafe"
    ELSE IF d.state = "stopped" THEN "stopped"
    ELSE IF ~LocalMatch(d) /\ ~PublishedEndpoint(d) THEN "endpoint"
    ELSE IF LocalConflict(d) THEN "unsafe"
    ELSE IF d.health \in {"unhealthy", "starting"} THEN "unsafe"
    ELSE "match"

\* correlateCandidate
Correlate(d) ==
    IF d.database # config.value.database \/ d.username # config.value.username THEN "identity"
    ELSE IF d.labels = "foreign" THEN "identity"
    ELSE IF ~d.mount /\ d.labels # "master" THEN "unsafe"
    ELSE IF ~LocalMatch(d) /\ ~PublishedEndpoint(d) THEN "endpoint"
    ELSE IF LocalConflict(d) THEN "unsafe"
    ELSE IF d.state = "stopped" THEN "stopped"
    ELSE IF d.health \in {"unhealthy", "starting"} THEN "unsafe"
    ELSE "match"

Masters == {c \in DOMAIN details : details[c].name = "master"}
Reasons == {Correlate(details[c]) : c \in Masters}
Matches == {c \in Masters : Correlate(details[c]) = "match"}

\* The order of the switch in DiscoverContainer.
Reason ==
    IF "stopped" \in Reasons THEN "stopped"
    ELSE IF "unsafe" \in Reasons THEN "unsafe"
    ELSE IF "endpoint" \in Reasons THEN "endpoint"
    ELSE IF "identity" \in Reasons THEN "identity"
    ELSE "precondition"

\* After the last inspection.  Store.Preflight, which comes next, is in BackupAction.
Decide ==
    /\ phase = "inspect" /\ candidates = {}
    /\ \/ failed /\ Ends("precondition") /\ UNCHANGED plan
       \/ ~failed /\ Matches = {} /\ Ends(Reason) /\ UNCHANGED plan
       \/ /\ ~failed /\ \E c, d \in Matches : c # d
          /\ Ends("ambiguous") /\ UNCHANGED plan
       \/ /\ ~failed /\ \E c \in Matches : Matches = {c} /\ plan' = c
          /\ phase' = "confirm" /\ decision' = "planned"
    /\ UNCHANGED <<docker, config, candidates, details, failed, dumped, disturbances,
                   stale, faults>>

\* The operator confirms, and RunWithProgress dumps from the configured address, on the
\* host's network; pg_dump fails where nothing answers or the database is not there.
Dump ==
    /\ phase = "confirm" /\ phase' = "done"
    /\ \/ \E c \in Reached(config.value.host, config.value.port) :
             /\ docker[c].database = config.value.database
             /\ docker[c].username = config.value.username
             /\ dumped' = c
       \/ UNCHANGED dumped
    /\ UNCHANGED <<docker, config, candidates, details, failed, decision, plan,
                   disturbances, stale, faults>>

\* The operator, or a compose command: containers stop, start, are removed or renamed;
\* docker refuses a name or a socket that another container has.
Disturb ==
    /\ disturbances < MaxDisturbances /\ disturbances' = disturbances + 1
    /\ phase # "done"
    /\ \E c \in Containers :
          /\ Exists(c)
          /\ \/ Running(c) /\ docker' = [docker EXCEPT ![c].state = "stopped"]
             \/ ~Running(c) /\ docker' = [docker EXCEPT ![c].state = "running"]
             \/ docker' = [docker EXCEPT ![c].state = "removed"]
             \/ \E d \in Containers \ {c} :
                   docker' = [docker EXCEPT ![c].name = docker[d].name, ![d].name = docker[c].name]
    /\ DockerConsistent'
    /\ stale' = DOMAIN details
    /\ UNCHANGED <<phase, config, candidates, details, failed, decision, plan, dumped, faults>>

DiscoveryNext ==
    \/ \E resolved \in Resolved : ResolvesTo(resolved)
    \/ ListCandidates \/ Inspect \/ Decide \/ Dump \/ Disturb

DiscoverySpec == DiscoveryInit /\ [][DiscoveryNext]_discoveryVars

-----------------------------------------------------------------------------
(* Properties.                                                              *)

\* What is true of a container, by docker's own account.
RightDatabase(c) ==
    /\ docker[c].database = config.value.database /\ docker[c].username = config.value.username
    /\ docker[c].labels # "foreign"
Reachable(c) ==
    \/ Bound(c, config.value.host, config.value.port)
    \/ config.value.host \in docker[c].aliases /\ config.value.port = 5432

\* It is bound at another loopback address, which the selection takes for the same.
Loosely(c) == \E b \in docker[c].ports : b.ip \in Loopback \ {config.value.host}
Provenance(c) == docker[c].mount \/ docker[c].labels = "master"

\* The dump that is filed under the selected container is a dump of it, although it is
\* taken from an address: for as long as no container has changed since the selected one
\* was inspected, and unless the address is ambiguous to the selection (localhost, or a
\* binding at another loopback address than the configured one).
DumpsWhatItSelected ==
    dumped # 0 /\ plan \notin stale =>
        \/ dumped = plan
        \/ config.value.host = "localhost"
        \/ Loosely(plan)

\* Where nothing fails and nothing changes, a refusal gives a reason that holds, so that a
\* master that runs with the right database at the configured address is planned for, and
\* an operator is told to start only what, once started, answers there.  A stopped master
\* has no published port, so that it is the endpoint that is refused, unless the endpoint
\* is an alias (StoppedMasterIsToldStopped, below).
RefusalIsTrue ==
    phase \in {"confirm", "done"} /\ disturbances = 0 /\ ~faults /\ config.ok =>
    LET masters == {c \in Exact : docker[c].name = "master"}
    IN CASE decision = "noImage" -> Exact = {}
         [] decision = "identity" -> \E c \in masters : ~RightDatabase(c)
         [] decision = "unsafe" -> \E c \in masters :
                /\ RightDatabase(c)
                /\ \/ ~Provenance(c) \/ docker[c].health \in {"unhealthy", "starting"}
                   \/ config.value.host \in docker[c].aliases /\ config.value.port # 5432
         [] decision = "endpoint" -> \E c \in masters :
                RightDatabase(c) /\ (~Reachable(c) \/ ~Running(c))
         [] decision = "stopped" -> \E c \in masters :
                RightDatabase(c) /\ ~Running(c) /\ Reachable(c)
         [] decision = "precondition" -> masters = {} \/ \E c \in Exact : Malformed(c)
         [] OTHER -> decision = "planned"

\* A claim that the program does not keep (the menu change's explore-postgresql-backup.md:57,
\* "Report that the identified container must be started by the operator"; so does
\* container_selector_test.go:144, whose docker shows the ports of a stopped container):
\* a stopped master that is configured rightly is not refused for its endpoint.
StoppedMasterIsToldStopped ==
    phase = "done" /\ disturbances = 0 /\ ~faults /\ decision = "endpoint" =>
        \E c \in Exact : docker[c].name = "master" /\ RightDatabase(c) /\ ~Reachable(c)
=============================================================================
