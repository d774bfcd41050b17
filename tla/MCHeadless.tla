----------------------------- MODULE MCHeadless ------------------------------
(* A database and one more service.                                         *)
EXTENDS HeadlessInstall

CONSTANTS database, backend

MCServices == {database, backend}
=============================================================================
