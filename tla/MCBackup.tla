------------------------------ MODULE MCBackup ------------------------------
(* A small instance of Backup for TLC. *)
EXTENDS BackupProofs, TLC

CONSTANTS c1, p1, bad

MCOneClient == {c1}
MCPattern == {p1}
MCAllOps == AllOps
=============================================================================
