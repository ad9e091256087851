-------------------------- MODULE MCBackupRestore --------------------------
(***************************************************************************)
(* One repository that is created and pushed to around backups, with up to *)
(* two kills, errors, edits or damages.                                    *)
(***************************************************************************)
EXTENDS BackupRestore
=============================================================================
