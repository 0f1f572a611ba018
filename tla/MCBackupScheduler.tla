-------------------------- MODULE MCBackupScheduler --------------------------
(* Instances of BackupScheduler for TLC: days of four ticks, weeks of three *)
(* days, months of three and four days of which a schedule may name three.  *)
EXTENDS BackupScheduler

Months == {0, 3, 7, 10, 14, 17}
==============================================================================
