----------------------------- MODULE MCInstaller -----------------------------
(* Where messages sent at once come first, both bootstrap actions (creating  *)
(* a directory, starting the daemon) may be called for; where messages come  *)
(* in any order, one of them.                                                *)
EXTENDS InstallerTUI

CONSTANTS media, daemon

MCFixes == {media, daemon}

MCInit == Init /\ faults = IF prompt THEN MCFixes ELSE {media}

MCSpec == MCInit /\ [][Next]_vars /\ Fairness
=============================================================================
