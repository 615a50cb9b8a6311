-------------------------- MODULE MCBackupFileStatus --------------------------
EXTENDS BackupFileStatus

CONSTANTS f1, f2

\* Two piece rows, with any pair of keys.
MCFiles == {f1, f2}

\* Two values for every key field but the incarnation, which is always
\* OB_START_INCARNATION: every field after it can decide a comparison.
MCKeyValues == [incarnation |-> {1}, tenant_id |-> {1, 2}, round_id |-> {1, 2},
                backup_piece_id |-> {0, 1}, copy_id |-> {0, 1}]

=============================================================================
