------------------------------ MODULE MCHandoff ------------------------------
(* Legacy services for TLC: two of the three, enough for "some stopped, some not". *)
EXTENDS MigrationHandoff

MCServices == {0, 2}
=============================================================================
