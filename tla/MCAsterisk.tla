----------------------------- MODULE MCAsterisk ------------------------------
(* Two installations, one after the other.                                  *)
EXTENDS AsteriskInstaller
=============================================================================
