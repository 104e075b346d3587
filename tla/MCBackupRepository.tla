------------------------- MODULE MCBackupRepository -------------------------
(* Small instances of BackupRepository. *)
EXTENDS BackupRepository, TLC

WriterSymmetry == Permutations(Writers)
=============================================================================
