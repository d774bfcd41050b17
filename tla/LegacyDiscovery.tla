---------------------------- MODULE LegacyDiscovery ----------------------------
(***************************************************************************)
(* How the backup finds the legacy database: BackupAction.Preflight of     *)
(* internal/migration/backup_action.go resolves the backend's config.js    *)
(* (module ConfigParser) and selects the container that the configuration  *)
(* names (module ContainerDiscovery).                                      *)
(***************************************************************************)
EXTENDS NodeConfig, ContainerDiscovery

VARIABLES tokens, selected, env   \* config.js, the environment asked for, the variables

inputs == <<tokens, selected, env>>
vars == <<inputs, discoveryVars>>

\* Resolve, of what the file says.
ResolveConfig == ResolvesTo(Resolve(tokens, selected, env))

Next ==
    /\ ResolveConfig \/ ListCandidates \/ Inspect \/ Decide \/ Dump \/ Disturb
    /\ UNCHANGED inputs

-----------------------------------------------------------------------------
(* Properties.                                                              *)

\* The installer, which never runs config.js, connects where the backend connects: it
\* accepts nothing but scripts of the admitted grammar, and a setting that Node can use is
\* taken as Node evaluates it, never replaced by a default or by another setting; and a
\* script of the grammar whose settings can all be used is accepted.  What is accepted, the
\* selection takes: every setting is given, and the port is one.
ResolvesLikeNode ==
    (phase = "list" \/ decision = "config") /\ ~faults =>
    LET settings == Settings(tokens, selected)
        Node(f) == NodeValue(settings[f], env)
        Given(f) == f \in DOMAIN settings /\ Usable(f, Node(f))
    IN /\ config.ok =>
            /\ IsProgram(tokens, selected) /\ config \in Resolved
            /\ Node("dialect").text = "postgres"
            /\ \A f \in StringFields : Given(f) => config.value[f] = Node(f).text
            /\ Given("port") => config.value.port = Atoi[Node("port").text]
       /\ IsProgram(tokens, selected) =>
            (/\ \A f \in {"dialect"} \union StringFields : Given(f)
             /\ Node("dialect").text = "postgres"
             /\ Given("port") \/ "port" \notin DOMAIN settings
             => config.ok)
=============================================================================
