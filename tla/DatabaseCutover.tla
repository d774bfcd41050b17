--------------------------- MODULE DatabaseCutover ---------------------------
(***************************************************************************)
(* What a restore promises, without its calls and contexts.  The target    *)
(* database holds the installed data, the legacy data, or something that   *)
(* serves nobody.  It may be touched only once an archive of the installed *)
(* data is published, and the run ends with exactly one verdict, which the *)
(* contents justify.  Nothing changes afterwards, unless a command on the  *)
(* database was let loose: the run no longer waits for it.                 *)
(***************************************************************************)
VARIABLES content, archived, touched, loose, verdict

vars == <<content, archived, touched, loose, verdict>>

Contents == {"installed", "broken", "legacy"}
Verdicts == {"pending", "untouched", "replaced", "restored", "partial"}

Init ==
    /\ content = "installed" /\ archived = FALSE
    /\ touched = FALSE /\ loose = FALSE /\ verdict = "pending"

Archive ==
    /\ verdict = "pending" /\ ~touched
    /\ archived' = TRUE
    /\ UNCHANGED <<content, touched, loose, verdict>>

MayLetLoose == loose' \in {loose, TRUE}

\* The point of no return: the drop has been submitted, and may have failed.
Touch ==
    /\ verdict = "pending" /\ archived
    /\ touched' = TRUE
    /\ content' \in {content, "broken"} /\ MayLetLoose
    /\ UNCHANGED <<archived, verdict>>

Change ==
    /\ touched /\ (verdict = "pending" \/ loose)
    /\ content' \in Contents /\ MayLetLoose
    /\ UNCHANGED <<archived, touched, verdict>>

Justified(v) ==
    \/ v = "untouched" /\ content = "installed" /\ ~touched
    \/ v = "replaced"  /\ content = "legacy" /\ touched /\ ~loose
    \/ v = "restored"  /\ (content = "installed" \/ loose) /\ touched

Conclude ==
    /\ verdict = "pending"
    /\ \E v \in Verdicts : Justified(v) /\ verdict' = v
    /\ UNCHANGED <<content, archived, touched, loose>>

\* The verdict that promises no contents: only an archive to recover from by hand.
ConcludePartial ==
    /\ verdict = "pending" /\ touched /\ archived
    /\ verdict' = "partial"
    /\ content' \in Contents /\ MayLetLoose
    /\ UNCHANGED <<archived, touched>>

Next == Archive \/ Touch \/ Change \/ Conclude \/ ConcludePartial

Spec == Init /\ [][Next]_vars
=============================================================================
