------------------------------- MODULE MCBackup -------------------------------
(* Backup operations and checksums for TLC. *)
EXTENDS BackupAction

CONSTANTS o1, o2, x1, x2

MCOperations == {o1, o2}
MCSums == {x1, x2}
=============================================================================
