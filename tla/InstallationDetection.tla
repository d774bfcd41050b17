------------------------ MODULE InstallationDetection -------------------------
(***************************************************************************)
(* What the interactive installer takes a host for when it starts          *)
(* (internal/installation): two probes, of the workspace and of a legacy   *)
(* installation, and their classification.  Nothing here changes a state.  *)
(*                                                                         *)
(* A path is what os.Stat says of it.  A PM2 record is what LegacyPolicy   *)
(* says of it: its name, script and ecosystem file are Alice's, its        *)
(* working directory or its executable is under a deployment root.         *)
(***************************************************************************)
EXTENDS Naturals

Stats == {"absent", "file", "directory", "unreadable"}
Records == [name : BOOLEAN, script : BOOLEAN, ecosystem : BOOLEAN, cwd : BOOLEAN, exec : BOOLEAN]

\* Mutant: the .env file stands for the workspace.
MutWorkspaceProbe(env, base) ==
    IF env = "absent" THEN "absent"
    ELSE IF env = "file" THEN "present"
    ELSE "uncertain"

\* WorkspaceProbe: both files or neither.
WorkspaceProbe(env, base) ==
    IF env = "absent" /\ base = "absent" THEN "absent"
    ELSE IF env = "file" /\ base = "file" THEN "present"
    ELSE "uncertain"

KnownLegacyDirectoryProbe(supported, path) ==
    IF ~supported THEN "unsupported"
    ELSE IF path = "absent" THEN "absent"
    ELSE IF path = "directory" THEN "present"
    ELSE "uncertain"

\* LegacyPolicy.matches: its two answers, and the first one that applies.
Matched(r) ==
    \/ r.name /\ (r.cwd \/ r.exec)
    \/ r.script /\ r.cwd
    \/ r.ecosystem /\ r.exec
Weak(r) == ~Matched(r) /\ (r.name \/ r.script \/ r.ecosystem)

\* PM2Probe: pm2 is missing, its listing fails, or lists records.
PM2Probe(supported, pm2) ==
    IF ~supported THEN "unsupported"
    ELSE IF pm2.answer = "missing" THEN "absent"
    ELSE IF pm2.answer = "failed" THEN "uncertain"
    ELSE IF \E r \in pm2.records : Matched(r) THEN "present"
    ELSE IF \E r \in pm2.records : Weak(r) THEN "uncertain"
    ELSE "absent"

LegacyFallbackProbe(supported, path, pm2) ==
    LET directory == KnownLegacyDirectoryProbe(supported, path)
    IN IF directory \in {"present", "uncertain"} THEN directory ELSE PM2Probe(supported, pm2)

Classify(current, legacy) ==
    IF "uncertain" \in {current, legacy} THEN "Unknown"
    ELSE IF current = "present" /\ legacy = "present" THEN "Conflict"
    ELSE IF current = "present" THEN "Current"
    ELSE IF legacy = "present" THEN "LegacyPM2"
    ELSE IF current = "absent" /\ legacy \in {"absent", "unsupported"} THEN "NotInstalled"
    ELSE "Unknown"

-----------------------------------------------------------------------------
(* The hosts, with a PM2 that lists up to one record.                       *)

PM2Answers ==
    [answer : {"missing", "failed"}, records : {{}}]
    \union [answer : {"listed"}, records : {{}} \union {{r} : r \in Records}]

\* There is something of a legacy installation, or there may be.
Trace(path, pm2) ==
    \/ path # "absent"
    \/ pm2.answer = "failed"
    \/ \E r \in pm2.records : r.name \/ r.script \/ r.ecosystem

\* What the probe says on a supported platform or on another, with the truth.
LegacyVerdicts == [supported \in BOOLEAN |->
    {[presence |-> LegacyFallbackProbe(supported, path, pm2),
      trace |-> supported /\ Trace(path, pm2)] : path \in Stats, pm2 \in PM2Answers}]
=============================================================================
