--------------------------- MODULE MCBackupChain ---------------------------
(***************************************************************************)
(* BackupChain for TLC: the bounds are in the .cfg files, the deleters are  *)
(* model values.                                                            *)
(***************************************************************************)
EXTENDS BackupProperties, TLC
=============================================================================
