--------------------------- MODULE MCBackupPrune ---------------------------
(* Small instances of BackupPrune.                                          *)
EXTENDS BackupPrune, TLC

Symmetry == Permutations(Blob) \cup Permutations(PackId)
              \cup Permutations(IndexId) \cup Permutations(Backup)
=============================================================================
