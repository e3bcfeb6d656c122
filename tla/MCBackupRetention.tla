------------------------- MODULE MCBackupRetention -------------------------
(* Small instance of BackupRetention for TLC: two machines, Keep = 2.      *)
EXTENDS BackupRetention

TwoMachines == {1, 2}
=============================================================================
