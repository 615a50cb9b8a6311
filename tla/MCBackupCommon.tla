---------------------------- MODULE MCBackupCommon ----------------------------
(* Writers set each field to a value that passes check_valid() and to one *)
(* that fails it; payloads are the empty one (CRC64 0) and two of the same *)
(* length with different CRCs spread over all four chunks, so that a      *)
(* corrupted payload keeps its length.  One corruption per file.  Three   *)
(* log-stream tasks report stats: two that differ in every counter and   *)
(* one that has reported nothing yet.                                     *)
EXTENDS BackupCommon, TLC

CONSTANTS ls1, ls2, ls3

MCFieldValues ==
  [data_type       |-> {1},
   compressor_type |-> {NoneComp, 2},
   data_length     |-> {I64Of(5), I64Of(131077)},
   data_zlength    |-> {I64Of(5)},
   align_length    |-> {I64Of(4096)}]

MCPayloads ==
  {[len |-> Zero64, crc |-> Zero64],
   [len |-> I64Of(5), crc |-> <<4660, 22136, 39612, 4095>>],
   [len |-> I64Of(5), crc |-> <<4660, 22137, 39612, 61440>>]}

MCLSStats ==
  (ls1 :> [input_bytes |-> 10, output_bytes |-> 8, tablet_count |-> 2,
           finish_tablet_count |-> 2, macro_block_count |-> 3,
           finish_macro_block_count |-> 3, extra_bytes |-> 1, finish_file_count |-> 1])
  @@ (ls2 :> [input_bytes |-> 20, output_bytes |-> 15, tablet_count |-> 1,
              finish_tablet_count |-> 0, macro_block_count |-> 4,
              finish_macro_block_count |-> 2, extra_bytes |-> 0, finish_file_count |-> 2])
  @@ (ls3 :> [f \in StatFields |-> 0])

\* OB_INVALID_ID is UINT64_MAX; the largest integer TLC holds stands for it,
\* so that is_valid() rejects it by its first test, not by tenant_id_ > 0.
MCInvalidId == 2147483647

\* Catalog rows of one tenant: a cleaned info, one of a backup in progress
\* (every field set, the ones check_backup_info_match() skips included),
\* and one with tenant id 0.
MCInfoCleaned ==
  [InfoReset EXCEPT !.backup_dest = "d1", !.backup_set_id = 1, !.backup_type = "EMPTY",
                    !.encryption_mode = "NONE", !.incarnation = 1, !.tenant_id = 1001]
MCInfoDoing ==
  [MCInfoCleaned EXCEPT !.backup_backup_dest = "d2", !.backup_data_version = 5,
                        !.backup_schema_version = 5, !.backup_set_id = 2,
                        !.backup_snapshot_version = 5, !.backup_task_id = 7,
                        !.backup_type = "FULL", !.detected_backup_region = "r",
                        !.passwd = "p"]
MCInfoRows == {MCInfoCleaned, MCInfoDoing, [MCInfoDoing EXCEPT !.tenant_id = 0]}

\* A restore request that names its backup by a dest string, and one that
\* leaves it to the backup-set path list.
MCRestoreByDest ==
  [RestoreNew EXCEPT !.backup_dest = "oss://b", !.cluster_id = 1, !.cluster_name = "c",
                     !.cluster_version = 1, !.compatible = 1, !.full_backup_set_id = 1,
                     !.inc_backup_set_id = 2, !.incarnation = 1, !.log_archive_round = 1,
                     !.restore_snapshot_version = 5, !.restore_start_ts = 3, !.tenant_id = 1001]
MCRestoreRows == {MCRestoreByDest, [MCRestoreByDest EXCEPT !.backup_dest = ""]}

\* Paths for set(): one backup set with its piece and log paths, and a
\* second backup set alone.
MCListInputs ==
  {[briefs |-> <<[desc |-> "full", path |-> "s1"]>>, logs |-> <<"l1">>, pieces |-> <<"p1">>],
   [briefs |-> <<[desc |-> "inc", path |-> "s2"]>>, logs |-> <<>>, pieces |-> <<>>]}

\* Catalog pieces: the sys tenant's active and frozen pieces and a sys
\* piece with no dest (invalid).  init_piece_info() makes user tenants'
\* pieces from them, which the model then also offers it as sys_piece.
MCSysPiece ==
  [backup_dest |-> "oss://b", checkpoint_ts |-> 4, compatible |-> "V1", create_date |-> 20240101,
   file_status |-> "AVAILABLE",
   key |-> [backup_piece_id |-> 2, copy_id |-> 0, incarnation |-> 1, round_id |-> 1, tenant_id |-> 1],
   max_ts |-> 5, start_piece_id |-> 1, start_ts |-> 3, status |-> "ACTIVE"]
MCPieceRows ==
  {MCSysPiece,
   [MCSysPiece EXCEPT !.key.backup_piece_id = 1, !.status = "FROZEN"],
   [MCSysPiece EXCEPT !.backup_dest = ""]}

\* A user tenant, tenant 0 and OB_INVALID_ID.
MCPieceTenants == {1002, 0, MCInvalidId}
=============================================================================
