----------------------------- MODULE BackupCommon -----------------------------
(***************************************************************************)
(* The backup file common header and the retry helpers of ObBackupUtils,  *)
(* in src/share/backup/ob_backup_struct.cpp.                               *)
(*                                                                         *)
(* The header part follows one ObBackupCommonHeader through its life: a   *)
(* writer resets it, sets its fields, seals it with set_checksum() (or    *)
(* set_header_checksum()) and writes it with its payload; storage may     *)
(* corrupt one bit of the header or the payload; a reader runs            *)
(* check_valid() and check_data_checksum().  Every field keeps its width: *)
(* 16-bit fields are naturals below 2^16 (an int16_t by its bit pattern), *)
(* compressor_type_ is below 2^8, and an int64_t is four 16-bit chunks,   *)
(* lowest first, so that calc_header_checksum()'s fold is bit-exact.      *)
(*                                                                         *)
(* The retry part runs get_backup_scn()'s wait for GTS and                *)
(* retry_get_tenant_schema_guard()'s bounded retry.  The two parts share  *)
(* nothing, so a behaviour follows one of them (part, chosen in Init).   *)
(*                                                                         *)
(* The stats part rolls the ObBackupStats of a set task's log-stream      *)
(* tasks up into the set task's own ObBackupStats with cum_with(); the     *)
(* roll-up folds the children in any order and may start over (a new     *)
(* turn of the task) with reset().                                        *)
(*                                                                         *)
(* The info part runs ObBaseBackupInfoStruct's reset(), its status string *)
(* setter and its copies (assign() and operator=) and comparison          *)
(* (check_backup_info_match()) on two objects a caller fills from catalog *)
(* rows.                                                                  *)
(*                                                                         *)
(* The restore part runs ObPhysicalRestoreInfo's constructor, destroy(),  *)
(* is_valid() and assign(), with ObPhysicalRestoreBackupDestList's set()  *)
(* and assign(), on two objects; every ObSArray copy or push_back may run *)
(* out of memory.                                                         *)
(*                                                                         *)
(* The piece part runs ObBackupPieceInfo's reset() and init_piece_info()  *)
(* (a tenant's piece made from the sys tenant's) on two objects, and      *)
(* ObNonFrozenBackupPieceInfo's reset(), is_valid() and getters on one    *)
(* that a caller fills from them.                                         *)
(***************************************************************************)
EXTENDS Integers, Sequences, Bitwise, FiniteSetsExt

CONSTANTS
  HeaderVersion,   \* COMMON_HEADER_VERSION
  HeaderSize,      \* sizeof(ObBackupCommonHeader)
  InvalidComp,     \* ObCompressorType::INVALID_COMPRESSOR
  NoneComp,        \* ObCompressorType::NONE_COMPRESSOR
  TypeMax,         \* ObBackupFileType::BACKUP_TYPE_MAX
  FieldValues,     \* field name -> the values a writer may set it to
  Payloads,        \* payloads as [len |-> int64, crc |-> ob_crc64 of them]
  MaxCorrupt,      \* bits or payloads storage may corrupt per file
  Timeout,         \* get_backup_scn()'s 10 s, in 10 ms sleeps
  MaxRetryTimes,   \* ObBackupUtils::MAX_RETRY_TIMES
  LSStats,         \* log-stream task -> the ObBackupStats it reports
  InvalidId,       \* OB_INVALID_ID
  InfoRows,        \* the plain fields a caller reads into a backup info
  RestoreRows,     \* the fields a caller writes into a restore info
  ListInputs,      \* [briefs, logs, pieces] handed to the dest list's set()
  MaxSets,         \* bound on the backup-set paths and descs a list accumulates
  PieceRows,       \* the backup pieces a caller reads from the catalog
  PieceTenants     \* tenant ids init_piece_info() is given

Chunk == 0 .. 65535
I64 == [1..4 -> Chunk]

\* An int64_t value v >= 0 below 2^32, as chunks.
I64Of(v) == <<v % 65536, v \div 65536, 0, 0>>
Zero64 == I64Of(0)
Negative(v) == v[4] >= 32768

Scalar16 == {"data_type", "header_version", "header_length", "header_checksum"}
Fields64 == {"data_length", "data_zlength", "data_checksum", "align_length"}
Width(f) == CASE f \in Scalar16    -> 16
              [] f = "compressor_type" -> 8
              [] f \in Fields64    -> 64

Header == [data_type : Chunk, header_version : Chunk, compressor_type : 0..255,
           header_length : Chunk, data_length : I64, data_zlength : I64,
           data_checksum : I64, align_length : I64, header_checksum : Chunk]

Codes == {"SUCCESS", "INVALID_ARGUMENT", "INVALID_ERROR", "CHECKSUM_ERROR",
          "EAGAIN", "TIMEOUT", "GTS_ERROR", "SCHEMA_ERROR"}

\* The names of ObBackupInfoStatus::BackupStatus, as get_status_str() and
\* set_info_backup_status() spell them; MAX is what reset() leaves.
InfoStatusStrs == {"STOP", "PREPARE", "SCHEDULE", "DOING", "CANCEL", "CLEANUP"}
InfoObjs == {"a", "b"}

\* reset() field by field: ids and versions zero, tenant OB_INVALID_ID,
\* the strings empty, backup_type_ and backup_status_ MAX, encryption mode
\* MAX_MODE.
InfoReset ==
  [backup_backup_dest |-> "", backup_data_version |-> 0, backup_dest |-> "",
   backup_schema_version |-> 0, backup_set_id |-> 0, backup_snapshot_version |-> 0,
   backup_status |-> "MAX", backup_task_id |-> 0, backup_type |-> "MAX",
   detected_backup_region |-> "", encryption_mode |-> "MAX_MODE", incarnation |-> 0,
   passwd |-> "", tenant_id |-> InvalidId]

InfoCodes == {"SUCCESS", "INVALID_ARGUMENT", "ENTRY_NOT_EXIST", "BACKUP_INFO_NOT_MATCH"}
InfoStructs ==
  {[r EXCEPT !.backup_status = st] : r \in InfoRows \cup {InfoReset},
                                     st \in InfoStatusStrs \cup {"MAX"}}

VARIABLES
  part,      \* the part this behaviour follows
  wpc,       \* header part: "build", "sealed", "stored", "read"
  hdr,       \* the writer's ObBackupCommonHeader
  pay,       \* the payload last passed to set_checksum()
  written,   \* <<header, payload>> as written
  stored,    \* <<header, payload>> as storage now holds them
  corrupt,   \* corruptions storage has made since the write
  ret,       \* return code of the last header call
  gpc,       \* retry part: get_backup_scn(): "idle", "loop", "done"
  elapsed,   \* 10 ms sleeps since start_time
  gret,      \* get_backup_scn()'s ret
  spc,       \* retry_get_tenant_schema_guard(): "idle", "loop", "done"
  tries,     \* its retry_times
  sret,      \* its ret
  agg,       \* stats part: the set task's ObBackupStats
  done,      \* the log-stream tasks cum_with() has added since reset()
  infos,     \* info part: object -> its ObBaseBackupInfoStruct
  iret,      \* return code the caller saw from the last info call
  iop,       \* the last info call, for the action property
  restores,  \* restore part: object -> its ObPhysicalRestoreInfo
  rret,      \* return code of the last restore call
  rop,       \* the last restore call, for the action property
  pieces,    \* piece part: object -> its ObBackupPieceInfo
  nonfrozen, \* an ObNonFrozenBackupPieceInfo
  active,    \* the piece id and create date its getters last returned
  kret,      \* return code of the last piece call
  kop        \* the last piece call, for the action property

hvars == <<wpc, hdr, pay, written, stored, corrupt, ret>>
rvars == <<gpc, elapsed, gret, spc, tries, sret>>
svars == <<agg, done>>
ivars == <<infos, iret, iop>>
pvars == <<restores, rret, rop>>
kvars == <<pieces, nonfrozen, active, kret, kop>>
vars == <<part, hvars, rvars, svars, ivars, pvars, kvars>>

\* The eight counters of ObBackupStats.
StatFields == {"input_bytes", "output_bytes", "tablet_count",
               "finish_tablet_count", "macro_block_count",
               "finish_macro_block_count", "extra_bytes", "finish_file_count"}
LSs == DOMAIN LSStats

TypeOK ==
  /\ part \in {"header", "retry", "stats", "info", "restore", "piece"}
  /\ wpc \in {"build", "sealed", "stored", "read"}
  /\ hdr \in Header
  /\ pay \in Payloads
  /\ written \in Header \X Payloads
  /\ stored \in Header \X Payloads
  /\ corrupt \in 0 .. MaxCorrupt
  /\ ret \in Codes \cup {"none"}
  /\ gpc \in {"idle", "loop", "done"} /\ spc \in {"idle", "loop", "done"}
  /\ elapsed \in 0 .. Timeout + 1
  /\ gret \in Codes /\ sret \in Codes
  /\ infos \in [InfoObjs -> InfoStructs]
  /\ iret \in InfoCodes \cup {"none"}
  /\ \A o \in InfoObjs : Len(restores[o].lists.sets) <= MaxSets /\ Len(restores[o].lists.descs) <= MaxSets
  /\ rret \in {"SUCCESS", "ALLOCATE_MEMORY_FAILED", "none"}
  /\ kret \in {"SUCCESS", "INVALID_ARGUMENT", "ERR_UNEXPECTED", "none"}
  /\ tries \in 0 .. MaxRetryTimes
  /\ agg \in [StatFields -> Nat] /\ done \subseteq LSs

-----------------------------------------------------------------------------
(* ObBackupCommonHeader.                                                   *)

\* reset(): zero the struct, then the fixed version and length and the
\* invalid compressor and data type.
ResetHeader ==
  [data_type |-> TypeMax, header_version |-> HeaderVersion,
   compressor_type |-> InvalidComp, header_length |-> HeaderSize,
   data_length |-> Zero64, data_zlength |-> Zero64, data_checksum |-> Zero64,
   align_length |-> Zero64, header_checksum |-> 0]

\* format_i64 folding the two 32-bit halves of the value into the
\* accumulator without cutting them to 16 bits.
FormatI64Halves(v, cs) == (cs ^^ (v[1] + 65536 * v[2])) ^^ (v[3] + 65536 * v[4])

\* format_i64(value, checksum): XOR the four 16-bit chunks of the int64_t
\* into the int16_t accumulator, lowest first.
FormatI64(v, cs) == (((cs ^^ v[1]) ^^ v[2]) ^^ v[3]) ^^ v[4]

\* calc_header_checksum() without the fold of align_length_.
CalcHeaderChecksumNoAlign(h) ==
  FormatI64(h.data_checksum, FormatI64(h.data_zlength, FormatI64(h.data_length,
    ((h.header_version ^^ h.compressor_type) ^^ h.data_type) ^^ h.header_length)))

\* calc_header_checksum(): XOR of the 16-bit fields, then the 64-bit ones.
CalcHeaderChecksum(h) ==
  FormatI64(h.align_length,
    FormatI64(h.data_checksum, FormatI64(h.data_zlength, FormatI64(h.data_length,
      ((h.header_version ^^ h.compressor_type) ^^ h.data_type) ^^ h.header_length))))

\* check_header_checksum().
CheckHeaderChecksum(h) ==
  IF h.header_checksum # CalcHeaderChecksum(h) THEN "CHECKSUM_ERROR" ELSE "SUCCESS"

\* check_valid(): the field checks, then the header checksum.
CheckValid(h) ==
  IF \/ h.header_version # HeaderVersion
     \/ h.compressor_type = InvalidComp
     \/ h.compressor_type = NoneComp /\ h.data_length # h.data_zlength
     \/ h.data_type >= TypeMax
     \/ h.header_length # HeaderSize
     \/ Negative(h.align_length)
  THEN "INVALID_ERROR"
  ELSE CheckHeaderChecksum(h)

\* check_data_checksum(buf, len) on payload p.
CheckDataChecksum(h, p) ==
  CASE p.len = Zero64 /\ (h.data_length # Zero64 \/ h.data_zlength # Zero64
                           \/ h.data_checksum # Zero64) -> "INVALID_ARGUMENT"
    [] h.data_zlength # p.len  -> "INVALID_ARGUMENT"
    [] p.crc # h.data_checksum -> "CHECKSUM_ERROR"
    [] OTHER                   -> "SUCCESS"

EmptyPayload == CHOOSE p \in Payloads : p.len = Zero64

\* A single bit of a field's stored pattern, flipped.
FlipBit(h, f, b) ==
  IF f \in Fields64
    THEN [h EXCEPT ![f][b \div 16 + 1] = @ ^^ (2 ^ (b % 16))]
    ELSE [h EXCEPT ![f] = @ ^^ (2 ^ b)]

-----------------------------------------------------------------------------
InitHeader ==
  /\ wpc = "build"
  /\ hdr = ResetHeader
  /\ pay = EmptyPayload
  /\ written = <<ResetHeader, EmptyPayload>>
  /\ stored = <<ResetHeader, EmptyPayload>>
  /\ corrupt = 0
  /\ ret = "none"

\* The writer calls reset().
Reset ==
  /\ wpc = "build"
  /\ hdr' = ResetHeader
  /\ UNCHANGED <<wpc, pay, written, stored, corrupt, ret>>

\* The writer assigns a public field of the header.
SetField(f, v) ==
  /\ wpc = "build"
  /\ hdr' = [hdr EXCEPT ![f] = v]
  /\ UNCHANGED <<wpc, pay, written, stored, corrupt, ret>>

\* set_checksum(buf, len): len must equal data_zlength_; then the CRC64 of
\* the payload and the header checksum over it.
SetChecksum(p) ==
  LET h == [hdr EXCEPT !.data_checksum = p.crc]
  IN /\ wpc = "build"
     /\ IF hdr.data_zlength # p.len
          THEN /\ ret' = "INVALID_ARGUMENT"
               /\ UNCHANGED <<wpc, hdr, pay>>
          ELSE /\ ret' = "SUCCESS"
               /\ hdr' = [h EXCEPT !.header_checksum = CalcHeaderChecksum(h)]
               /\ pay' = p
               /\ wpc' = "sealed"
     /\ UNCHANGED <<written, stored, corrupt>>

\* set_header_checksum(): the header checksum alone.
SetHeaderChecksum ==
  /\ wpc = "build"
  /\ hdr' = [hdr EXCEPT !.header_checksum = CalcHeaderChecksum(hdr)]
  /\ wpc' = "sealed"
  /\ UNCHANGED <<pay, written, stored, corrupt, ret>>

\* The sealed header is written with its payload.
Write ==
  /\ wpc = "sealed"
  /\ written' = <<hdr, pay>>
  /\ stored' = <<hdr, pay>>
  /\ corrupt' = 0
  /\ wpc' = "stored"
  /\ UNCHANGED <<hdr, pay, ret>>

\* Storage flips one bit of a header field ...
FlipHeaderBit(f, b) ==
  /\ wpc = "stored" /\ corrupt < MaxCorrupt
  /\ stored' = <<FlipBit(stored[1], f, b), stored[2]>>
  /\ corrupt' = corrupt + 1
  /\ UNCHANGED <<wpc, hdr, pay, written, ret>>

\* ... or damages the payload, keeping its length.
CorruptPayload(q) ==
  /\ wpc = "stored" /\ corrupt < MaxCorrupt
  /\ q # stored[2] /\ q.len = stored[2].len
  /\ stored' = <<stored[1], q>>
  /\ corrupt' = corrupt + 1
  /\ UNCHANGED <<wpc, hdr, pay, written, ret>>

\* The reader: check_valid() on the header, then check_data_checksum()
\* on the payload read.
Read ==
  LET v == CheckValid(stored[1])
  IN /\ wpc = "stored"
     /\ ret' = IF v # "SUCCESS" THEN v ELSE CheckDataChecksum(stored[1], stored[2])
     /\ wpc' = "read"
     /\ UNCHANGED <<hdr, pay, written, stored, corrupt>>

\* The next file starts with a new ObBackupCommonHeader().
NewFile ==
  /\ wpc = "read"
  /\ wpc' = "build"
  /\ hdr' = ResetHeader
  /\ pay' = EmptyPayload
  /\ written' = <<ResetHeader, EmptyPayload>>
  /\ stored' = <<ResetHeader, EmptyPayload>>
  /\ corrupt' = 0
  /\ ret' = "none"

HeaderNext ==
  \/ Reset \/ SetHeaderChecksum \/ Write \/ Read \/ NewFile
  \/ \E f \in DOMAIN FieldValues : \E v \in FieldValues[f] : SetField(f, v)
  \/ \E p \in Payloads : SetChecksum(p) \/ CorruptPayload(p)
  \/ \E f \in Scalar16 \cup Fields64 \cup {"compressor_type"} : \E b \in 0 .. Width(f) - 1 : FlipHeaderBit(f, b)

-----------------------------------------------------------------------------
(* ObBackupUtils retry helpers.                                            *)

\* is_need_retry_error(err): every code is worth a retry except the listed
\* ones (those this model produces among them).
NoRetryCodes == {"INVALID_ARGUMENT", "CHECKSUM_ERROR"}
IsNeedRetryError(err) == err \notin NoRetryCodes

InitRetry ==
  /\ gpc = "idle" /\ elapsed = 0 /\ gret = "SUCCESS"
  /\ spc = "idle" /\ tries = 0 /\ sret = "SUCCESS"

\* get_backup_scn(tenant_id, scn): an invalid tenant id fails at once;
\* otherwise ret = OB_EAGAIN, start_time is taken and the loop begins.
GetBackupScn(valid) ==
  /\ gpc = "idle"
  /\ gpc' = IF valid THEN "loop" ELSE "done"
  /\ gret' = IF valid THEN "EAGAIN" ELSE "INVALID_ARGUMENT"
  /\ elapsed' = 0
  /\ UNCHANGED <<spc, tries, sret>>

\* The loop's first branch: more than TIMEOUT since start_time.
GtsTimeout ==
  /\ gpc = "loop" /\ elapsed > Timeout
  /\ gret' = "TIMEOUT"
  /\ gpc' = "done"
  /\ UNCHANGED <<elapsed, spc, tries, sret>>

\* get_gts() with start_time taken again at each round of the loop: the
\* time since it is back to zero after the 10 ms sleep.
GtsPollFromStart ==
  /\ gpc = "loop" /\ elapsed <= Timeout
  /\ \E r \in {"SUCCESS", "GTS_ERROR", "EAGAIN"} :
       /\ gret' = r
       /\ gpc' = IF r = "EAGAIN" THEN "loop" ELSE "done"
       /\ elapsed' = IF r = "EAGAIN" THEN 0 ELSE elapsed
  /\ UNCHANGED <<spc, tries, sret>>

\* The loop's second branch: get_gts() gives the SCN, fails, or gives
\* OB_EAGAIN and the loop sleeps 10 ms and goes round again.
GtsPoll ==
  /\ gpc = "loop" /\ elapsed <= Timeout
  /\ \E r \in {"SUCCESS", "GTS_ERROR", "EAGAIN"} :
       /\ gret' = r
       /\ gpc' = IF r = "EAGAIN" THEN "loop" ELSE "done"
       /\ elapsed' = IF r = "EAGAIN" THEN elapsed + 1 ELSE elapsed
  /\ UNCHANGED <<spc, tries, sret>>

\* Time passes while get_gts() runs.
Tick ==
  /\ gpc = "loop" /\ elapsed <= Timeout
  /\ elapsed' = elapsed + 1
  /\ UNCHANGED <<gpc, gret, spc, tries, sret>>

\* retry_get_tenant_schema_guard(): invalid arguments fail at once;
\* otherwise the loop makes up to MAX_RETRY_TIMES attempts.
RetryGetTenantSchemaGuard(valid) ==
  /\ spc = "idle"
  /\ spc' = IF valid THEN "loop" ELSE "done"
  /\ sret' = IF valid THEN "SUCCESS" ELSE "INVALID_ARGUMENT"
  /\ tries' = 0
  /\ UNCHANGED <<gpc, elapsed, gret>>

\* One get_tenant_schema_guard() attempt: success breaks out, a failure
\* sleeps and counts; after MAX_RETRY_TIMES the last failure is returned.
SchemaAttempt ==
  /\ spc = "loop" /\ tries < MaxRetryTimes
  /\ \/ /\ sret' = "SUCCESS" /\ spc' = "done" /\ tries' = tries
     \/ /\ sret' = "SCHEMA_ERROR" /\ tries' = tries + 1
        /\ spc' = IF tries + 1 = MaxRetryTimes THEN "done" ELSE "loop"
  /\ UNCHANGED <<gpc, elapsed, gret>>

\* The caller calls again later.
RetryAgain ==
  /\ gpc = "done" /\ spc = "done"
  /\ gpc' = "idle" /\ spc' = "idle"
  /\ UNCHANGED <<elapsed, gret, tries, sret>>

RetryNext ==
  \/ \E valid \in BOOLEAN : GetBackupScn(valid) \/ RetryGetTenantSchemaGuard(valid)
  \/ GtsTimeout \/ GtsPoll \/ Tick \/ SchemaAttempt \/ RetryAgain

-----------------------------------------------------------------------------
(* ObBackupStats.                                                          *)

\* ObBackupStats(): every counter zero.
InitStats == agg = [f \in StatFields |-> 0] /\ done = {}

\* reset() that misses the counter added last, finish_file_count_.
ResetStatsKeepFileCount(s) ==
  [f \in StatFields |-> IF f = "finish_file_count" THEN s[f] ELSE 0]

\* reset(): every counter back to zero.
ResetStats(s) == [f \in StatFields |-> 0]

\* cum_with() that copies finish_file_count_ instead of adding it.
CumWithCopyFileCount(s, o) ==
  [f \in StatFields |-> IF f = "finish_file_count" THEN o[f] ELSE s[f] + o[f]]

\* cum_with(other): each counter += other's.
CumWith(s, o) == [f \in StatFields |-> s[f] + o[f]]

\* is_valid(): no counter is negative.
StatsIsValid(s) == \A f \in StatFields : s[f] >= 0

\* The roll-up adds a log-stream task's stats it has not added yet,
\* in whatever order the tasks are visited.
StatsCumWith(l) ==
  /\ l \notin done
  /\ agg' = CumWith(agg, LSStats[l])
  /\ done' = done \cup {l}

\* The roll-up starts over: reset() the set task's stats.
StatsReset ==
  /\ agg' = ResetStats(agg)
  /\ done' = {}

StatsNext == StatsReset \/ \E l \in LSs : StatsCumWith(l)

-----------------------------------------------------------------------------
(* ObBaseBackupInfoStruct, ObBackupInfoStatus.                             *)

\* is_valid(): a real tenant id, a backup status below MAX and an
\* encryption mode below MAX_MODE.
InfoIsValid(i) ==
  /\ i.tenant_id # InvalidId
  /\ i.tenant_id > 0
  /\ i.backup_status # "MAX"
  /\ i.encryption_mode # "MAX_MODE"

\* has_cleaned(): valid, stopped, every version zero and type EMPTY.
InfoHasCleaned(i) ==
  /\ InfoIsValid(i)
  /\ i.backup_status = "STOP"
  /\ i.backup_snapshot_version = 0 /\ i.backup_schema_version = 0
  /\ i.backup_data_version = 0
  /\ i.backup_type = "EMPTY"

\* set_info_backup_status(buf): the index of buf in the status table, or
\* OB_ENTRY_NOT_EXIST with the status left as it was.
SetInfoBackupStatus(i, buf) ==
  IF buf \in InfoStatusStrs THEN [info |-> [i EXCEPT !.backup_status = buf], ret |-> "SUCCESS"]
  ELSE [info |-> i, ret |-> "ENTRY_NOT_EXIST"]

\* Mutant: assign() that forgets passwd_.
InfoAssignNoPasswd(dst, src) ==
  IF ~InfoIsValid(src) THEN [info |-> dst, ret |-> "INVALID_ARGUMENT"]
  ELSE [info |-> [src EXCEPT !.passwd = dst.passwd], ret |-> "SUCCESS"]

\* assign(): OB_INVALID_ARGUMENT for an invalid source, which leaves the
\* target as it was; otherwise every field is copied.
InfoAssign(dst, src) ==
  IF ~InfoIsValid(src) THEN [info |-> dst, ret |-> "INVALID_ARGUMENT"]
  ELSE [info |-> src, ret |-> "SUCCESS"]

\* check_backup_info_match(): OB_INVALID_ARGUMENT for an invalid argument,
\* OB_BACKUP_INFO_NOT_MATCH when any field but backup_backup_dest_,
\* detected_backup_region_ and backup_task_id_ differs.
CheckBackupInfoMatch(self, other) ==
  LET compared == {"backup_dest", "tenant_id", "backup_set_id", "incarnation",
                   "backup_snapshot_version", "backup_schema_version",
                   "backup_data_version", "backup_type", "backup_status",
                   "encryption_mode", "passwd"}
  IN CASE ~InfoIsValid(other) -> "INVALID_ARGUMENT"
       [] \E f \in compared : self[f] # other[f] -> "BACKUP_INFO_NOT_MATCH"
       [] OTHER -> "SUCCESS"

InitInfo ==
  /\ infos = [o \in InfoObjs |-> InfoReset]
  /\ iret = "none"
  /\ iop = [dst |-> "a", name |-> "none", src |-> "a"]

\* The caller's calls on one object.
InfoCall(name, dst, src, info, r) ==
  /\ infos' = [infos EXCEPT ![dst] = info]
  /\ iret' = r
  /\ iop' = [dst |-> dst, name |-> name, src |-> src]

InfoNext ==
  \E x, y \in InfoObjs :
    \/ InfoCall("reset", x, x, InfoReset, "none")
    \/ \E row \in InfoRows :            \* the plain fields read from a row
         InfoCall("read", x, x, [row EXCEPT !.backup_status = infos[x].backup_status], "none")
    \/ \E buf \in InfoStatusStrs \cup {"BAD"} :
         LET r == SetInfoBackupStatus(infos[x], buf) IN InfoCall("set_status", x, x, r.info, r.ret)
    \/ LET r == InfoAssign(infos[x], infos[y]) IN InfoCall("assign", x, y, r.info, r.ret)
    \/ LET r == InfoAssign(infos[x], infos[y])   \* operator= drops the code
       IN InfoCall("operator=", x, y, r.info, "none")
    \/ InfoCall("check_match", x, y, infos[x], CheckBackupInfoMatch(infos[x], infos[y]))

-----------------------------------------------------------------------------
(* ObPhysicalRestoreInfo, ObPhysicalRestoreBackupDestList.                 *)

\* The four lists of ObPhysicalRestoreBackupDestList, in the order its
\* assign() copies them.
ListOrder == <<"sets", "pieces", "logs", "descs">>
NoLists == [descs |-> <<>>, logs |-> <<>>, pieces |-> <<>>, sets |-> <<>>]

\* The constructor: every id zero, the two strings empty, the snapshot
\* version OB_INVALID_TIMESTAMP, the lists empty.
RestoreNew ==
  [backup_date |-> 0, backup_dest |-> "", cluster_id |-> 0, cluster_name |-> "",
   cluster_version |-> 0, compatible |-> 0, full_backup_set_id |-> 0,
   inc_backup_set_id |-> 0, incarnation |-> 0, lists |-> NoLists,
   log_archive_round |-> 0, restore_snapshot_version |-> -1,
   restore_start_ts |-> 0, tenant_id |-> 0]

\* destroy(): the same fields as the constructor, but not
\* multi_restore_path_list_, whose reset() is empty.
RestoreDestroy(r) == [RestoreNew EXCEPT !.lists = r.lists]

\* is_valid(): a backup dest string or backup-set paths, not both; a
\* cluster name; OB_START_INCARNATION; every id, round and timestamp
\* positive.
RestoreIsValid(r) ==
  /\ (r.backup_dest # "") # (r.lists.sets # <<>>)
  /\ r.cluster_name # ""
  /\ r.cluster_id > 0 /\ r.incarnation = 1
  /\ \A f \in {"tenant_id", "full_backup_set_id", "inc_backup_set_id",
               "log_archive_round", "restore_snapshot_version",
               "restore_start_ts", "compatible", "cluster_version"} : r[f] > 0
  /\ r.backup_date >= 0

\* ObSArray::assign(other): the array is reused and refilled; running out
\* of memory part-way leaves a proper prefix of other in it.
ArrayAssign(src) ==
  {[arr |-> src, ret |-> "SUCCESS"]} \cup
  {[arr |-> SubSeq(src, 1, k), ret |-> "ALLOCATE_MEMORY_FAILED"] : k \in 0 .. Len(src) - 1}

\* ObSArray::push_back(x).
PushBack(arr, x) ==
  {[arr |-> Append(arr, x), ret |-> "SUCCESS"], [arr |-> arr, ret |-> "ALLOCATE_MEMORY_FAILED"]}

\* The assign() calls of lists i .. n, stopping at the first that fails.
RECURSIVE AssignLists(_, _, _, _)
AssignLists(cur, src, i, n) ==
  IF i > n THEN {[lists |-> cur, ret |-> "SUCCESS"]}
  ELSE UNION {IF r.ret = "SUCCESS" THEN AssignLists([cur EXCEPT ![ListOrder[i]] = r.arr], src, i + 1, n)
              ELSE {[lists |-> [cur EXCEPT ![ListOrder[i]] = r.arr], ret |-> r.ret]}
              : r \in ArrayAssign(src[ListOrder[i]])}

\* Mutant: assign() that forgets backup_set_desc_list_, the list added last.
DestListAssignNoDescs(dst, src) == AssignLists(dst, src, 1, 3)

\* ObPhysicalRestoreBackupDestList::assign(): the four lists in order.
DestListAssign(dst, src) == AssignLists(dst, src, 1, 4)

\* ObPhysicalRestoreBackupDestList::set(backup_set_list, piece_list,
\* log_path_list): the piece and log lists assigned, then each brief info's
\* path and description pushed onto the lists already there.
RECURSIVE PushBriefs(_, _)
PushBriefs(cur, briefs) ==
  IF briefs = <<>> THEN {[lists |-> cur, ret |-> "SUCCESS"]}
  ELSE UNION {IF p.ret # "SUCCESS" THEN {[lists |-> [cur EXCEPT !.sets = p.arr], ret |-> p.ret]}
              ELSE UNION {IF d.ret # "SUCCESS"
                          THEN {[lists |-> [cur EXCEPT !.descs = d.arr, !.sets = p.arr], ret |-> d.ret]}
                          ELSE PushBriefs([cur EXCEPT !.descs = d.arr, !.sets = p.arr], Tail(briefs))
                          : d \in PushBack(cur.descs, Head(briefs).desc)}
              : p \in PushBack(cur.sets, Head(briefs).path)}
DestListSet(cur, in) ==
  UNION {IF pr.ret # "SUCCESS" THEN {[lists |-> [cur EXCEPT !.pieces = pr.arr], ret |-> pr.ret]}
         ELSE UNION {IF lr.ret # "SUCCESS"
                     THEN {[lists |-> [cur EXCEPT !.logs = lr.arr, !.pieces = pr.arr], ret |-> lr.ret]}
                     ELSE PushBriefs([cur EXCEPT !.logs = lr.arr, !.pieces = pr.arr], in.briefs)
                     : lr \in ArrayAssign(in.logs)}
         : pr \in ArrayAssign(in.pieces)}

\* ObPhysicalRestoreInfo::assign(): the strings (STRNCPY) and the scalar
\* fields copied, then the lists' assign(), whose code is the result.
RestoreAssign(dst, src) ==
  {[info |-> [src EXCEPT !.lists = l.lists], ret |-> l.ret] : l \in DestListAssign(dst.lists, src.lists)}

InitRestore ==
  /\ restores = [o \in InfoObjs |-> RestoreNew]
  /\ rret = "none"
  /\ rop = [dst |-> "a", name |-> "none", src |-> "a"]

RestoreCall(name, dst, src, info, r) ==
  /\ restores' = [restores EXCEPT ![dst] = info]
  /\ rret' = r
  /\ rop' = [dst |-> dst, name |-> name, src |-> src]

RestoreNext ==
  \E x \in InfoObjs :
    \/ RestoreCall("new", x, x, RestoreNew, "none")
    \/ RestoreCall("destroy", x, x, RestoreDestroy(restores[x]), "none")
    \/ \E row \in RestoreRows :          \* a caller fills in a restore request
         RestoreCall("fill", x, x, [row EXCEPT !.lists = restores[x].lists], "none")
    \/ \E in \in ListInputs :
         /\ \A l \in {"sets", "descs"} : Len(restores[x].lists[l]) + Len(in.briefs) <= MaxSets
         /\ \E r \in DestListSet(restores[x].lists, in) :
              RestoreCall("set_lists", x, x, [restores[x] EXCEPT !.lists = r.lists], r.ret)
    \/ \E y \in InfoObjs \ {x} :
         \E r \in RestoreAssign(restores[x], restores[y]) :
           RestoreCall("assign", x, y, r.info, r.ret)

-----------------------------------------------------------------------------
(* ObBackupPieceInfo, ObNonFrozenBackupPieceInfo.                          *)

\* ObBackupPieceInfoKey::reset(), which is also its constructor.
PieceKeyReset ==
  [backup_piece_id |-> 0, copy_id |-> 0, incarnation |-> 0, round_id |-> 0, tenant_id |-> 0]

\* ObBackupPieceInfoKey::is_valid(): OB_START_INCARNATION, a tenant and a
\* round; piece and copy ids may be 0.
PieceKeyIsValid(k) ==
  /\ k.incarnation = 1 /\ k.tenant_id > 0 /\ k.round_id > 0
  /\ k.backup_piece_id >= 0 /\ k.copy_id >= 0

\* ObBackupPieceInfo::reset(), the same values as its constructor: status
\* BACKUP_PIECE_MAX, file status AVAILABLE, compatible MAX, the dest empty.
PieceReset ==
  [backup_dest |-> "", checkpoint_ts |-> 0, compatible |-> "MAX", create_date |-> 0,
   file_status |-> "AVAILABLE", key |-> PieceKeyReset, max_ts |-> 0,
   start_piece_id |-> 0, start_ts |-> 0, status |-> "MAX"]

\* ObBackupPieceInfo::is_valid(): the enums below their MAX, the dest set,
\* every timestamp and id non-negative.
PieceIsValid(p) ==
  /\ PieceKeyIsValid(p.key)
  /\ p.status # "MAX" /\ p.file_status # "MAX" /\ p.compatible # "MAX"
  /\ p.backup_dest # ""
  /\ \A f \in {"create_date", "start_ts", "checkpoint_ts", "max_ts", "start_piece_id"} : p[f] >= 0

\* The piece x holds while its own init_piece_info() runs: reset() comes
\* first, so a sys piece that is x itself has already been cleared.
SysPieceSeen(x, y) == IF x = y THEN PieceReset ELSE pieces[y]

\* Mutant: init_piece_info() that checks its arguments before it resets.
PieceInitNoReset(self, sys, tenant_id) ==
  IF ~PieceIsValid(sys) \/ tenant_id = InvalidId \/ sys.key.tenant_id # 1
  THEN [piece |-> self, ret |-> "INVALID_ARGUMENT"]
  ELSE [piece |-> [sys EXCEPT !.key.tenant_id = tenant_id], ret |-> "SUCCESS"]

\* init_piece_info(sys_piece, tenant_id): reset(), then reject an invalid
\* piece, OB_INVALID_ID or a piece not of OB_SYS_TENANT_ID; otherwise the
\* dest (an ObBackupPathString of the same capacity, so assign() cannot
\* overflow), the key with the tenant replaced, and every value copied.
PieceInit(self, sys, tenant_id) ==
  IF ~PieceIsValid(sys) \/ tenant_id = InvalidId \/ sys.key.tenant_id # 1
  THEN [piece |-> PieceReset, ret |-> "INVALID_ARGUMENT"]
  ELSE [piece |-> [sys EXCEPT !.key.tenant_id = tenant_id], ret |-> "SUCCESS"]

NonFrozenReset == [cur |-> PieceReset, has_prev |-> FALSE, prev |-> PieceReset]

\* ObNonFrozenBackupPieceInfo::is_valid(): a valid current piece and, when
\* there is a previous one, a valid previous piece that is not ACTIVE.
NonFrozenIsValid(nf) ==
  /\ PieceIsValid(nf.cur)
  /\ nf.has_prev => PieceIsValid(nf.prev) /\ nf.prev.status # "ACTIVE"

\* get_backup_piece_info(): the current piece's id and create date, or -1
\* and OB_INVALID_TIMESTAMP with OB_ERR_UNEXPECTED.
GetBackupPieceInfo(nf) ==
  IF NonFrozenIsValid(nf)
  THEN [out |-> [create_date |-> nf.cur.create_date, piece_id |-> nf.cur.key.backup_piece_id],
        ret |-> "SUCCESS"]
  ELSE [out |-> [create_date |-> -1, piece_id |-> -1], ret |-> "ERR_UNEXPECTED"]

\* get_backup_piece_id(): the id alone; the caller's date is not touched.
GetBackupPieceId(nf, out) ==
  LET r == GetBackupPieceInfo(nf)
  IN [out |-> [out EXCEPT !.piece_id = r.out.piece_id], ret |-> r.ret]

InitPiece ==
  /\ pieces = [o \in InfoObjs |-> PieceReset]
  /\ nonfrozen = NonFrozenReset
  /\ active = [create_date |-> -1, piece_id |-> -1]
  /\ kret = "none"
  /\ kop = [dst |-> "a", name |-> "none", src |-> "a", tenant |-> 0]

PieceCall(name, x, y, t, p, r) ==
  /\ pieces' = [pieces EXCEPT ![x] = p]
  /\ kret' = r
  /\ kop' = [dst |-> x, name |-> name, src |-> y, tenant |-> t]
  /\ UNCHANGED <<nonfrozen, active>>

NonFrozenCall(name, nf, out, r) ==
  /\ nonfrozen' = nf
  /\ active' = out
  /\ kret' = r
  /\ kop' = [dst |-> "a", name |-> name, src |-> "a", tenant |-> 0]
  /\ UNCHANGED pieces

PieceNext ==
  \/ \E x \in InfoObjs :
       \/ PieceCall("reset", x, x, 0, PieceReset, "none")
       \/ \E row \in PieceRows : PieceCall("fill", x, x, 0, row, "none")
       \/ \E y \in InfoObjs, t \in PieceTenants :
            LET r == PieceInit(pieces[x], SysPieceSeen(x, y), t)
            IN PieceCall("init", x, y, t, r.piece, r.ret)
  \/ NonFrozenCall("nf_reset", NonFrozenReset, active, "none")
  \/ \E c \in InfoObjs :                 \* a caller fills it from its pieces
       \/ NonFrozenCall("nf_fill", [NonFrozenReset EXCEPT !.cur = pieces[c]], active, "none")
       \/ \E p \in InfoObjs \ {c} :
            NonFrozenCall("nf_fill", [cur |-> pieces[c], has_prev |-> TRUE, prev |-> pieces[p]],
                          active, "none")
  \/ LET r == GetBackupPieceInfo(nonfrozen) IN NonFrozenCall("get_info", nonfrozen, r.out, r.ret)
  \/ LET r == GetBackupPieceId(nonfrozen, active) IN NonFrozenCall("get_id", nonfrozen, r.out, r.ret)

-----------------------------------------------------------------------------
Init ==
  /\ part \in {"header", "retry", "stats", "info", "restore", "piece"}
  /\ InitHeader
  /\ InitRetry
  /\ InitStats
  /\ InitInfo
  /\ InitRestore
  /\ InitPiece

RetryStep(A) == part = "retry" /\ A /\ UNCHANGED <<part, hvars, svars, ivars, pvars, kvars>>

Next ==
  \/ part = "header" /\ HeaderNext /\ UNCHANGED <<part, rvars, svars, ivars, pvars, kvars>>
  \/ RetryStep(RetryNext)
  \/ part = "stats" /\ StatsNext /\ UNCHANGED <<part, hvars, rvars, ivars, pvars, kvars>>
  \/ part = "info" /\ InfoNext /\ UNCHANGED <<part, hvars, rvars, svars, pvars, kvars>>
  \/ part = "restore" /\ RestoreNext /\ UNCHANGED <<part, hvars, rvars, svars, ivars, kvars>>
  \/ part = "piece" /\ PieceNext /\ UNCHANGED <<part, hvars, rvars, svars, ivars, pvars>>

\* The wall clock advances; the loop threads keep running (get_gts() is
\* not obliged ever to stop answering OB_EAGAIN, nor the schema service
\* to succeed).
Spec == Init /\ [][Next]_vars
          /\ WF_vars(RetryStep(Tick)) /\ WF_vars(RetryStep(GtsTimeout))
          /\ WF_vars(RetryStep(SchemaAttempt))

-----------------------------------------------------------------------------
(* Properties.                                                             *)

\* No undetected corruption: whatever single bit of the header or
\* whatever payload bytes storage corrupts after the write, a reader whose
\* check_valid() and check_data_checksum() both succeed has read exactly
\* the header and payload the writer sealed and wrote.
AcceptedIsWhatWasWritten ==
  (wpc = "read" /\ ret = "SUCCESS") => stored = written

\* The roll-up is order-free (spec 4.4 and 8.6): in every state, whatever
\* order cum_with() has visited the log-stream tasks in and however often
\* reset() has restarted it, the set task's stats are the element-wise sum
\* of exactly the tasks added since the last reset(), and are valid.
StatsAreSumOfAdded ==
  /\ agg = [f \in StatFields |-> MapThenSumSet(LAMBDA l : LSStats[l][f], done)]
  /\ StatsIsValid(agg)

\* A copy of a backup info is whole or nothing: after x.assign(y) or x = y
\* of a valid y, x is y field for field, so check_backup_info_match(y)
\* succeeds on it and has_cleaned() agrees; of an invalid y, x keeps what
\* it held, and only assign() tells the caller (operator= logs and drops
\* OB_INVALID_ARGUMENT).
InfoCopyIsWhole ==
  [][iop'.name \in {"assign", "operator="} =>
       LET x == iop'.dst
           y == infos[iop'.src]
       IN IF InfoIsValid(y)
          THEN /\ infos'[x] = y
               /\ CheckBackupInfoMatch(infos'[x], y) = "SUCCESS"
               /\ InfoHasCleaned(infos'[x]) = InfoHasCleaned(y)
          ELSE /\ infos'[x] = infos[x]
               /\ iret' = IF iop'.name = "assign" THEN "INVALID_ARGUMENT" ELSE "none"]_vars

\* ObPhysicalRestoreInfo::assign() reports success exactly when the target
\* has become a copy of the source, lists included, so is_valid() agrees:
\* the list copies reuse the target's arrays instead of appending to them,
\* and a copy that runs out of memory part-way is never reported as done.
RestoreAssignIsWhole ==
  [][rop'.name = "assign" =>
       LET x == rop'.dst
           y == restores[rop'.src]
       IN /\ (rret' = "SUCCESS") = (restores'[x] = y)
          /\ rret' = "SUCCESS" => RestoreIsValid(restores'[x]) = RestoreIsValid(y)]_vars

\* init_piece_info() leaves nothing of what the piece held before: on
\* success it is the sys piece with only the tenant id replaced (valid
\* exactly when that id is positive: tenant 0 is not rejected), on failure
\* the reset piece, so a caller reusing the object never reads a mixture
\* of its old piece and the new one.
PieceInitIsWhole ==
  [][kop'.name = "init" =>
       LET x == kop'.dst
           sys == pieces[kop'.src]
       IN IF kret' = "SUCCESS"
          THEN /\ pieces'[x] = [sys EXCEPT !.key.tenant_id = kop'.tenant]
               /\ PieceIsValid(pieces'[x]) = (kop'.tenant > 0)
          ELSE pieces'[x] = PieceReset]_vars

\* Both retry loops end: get_backup_scn() returns (its 10 s timeout is
\* measured from one start_time) and retry_get_tenant_schema_guard()
\* gives up after MAX_RETRY_TIMES; neither returns OB_EAGAIN.
RetryLoopsEnd ==
  /\ (gpc = "loop") ~> (gpc = "done" /\ gret # "EAGAIN")
  /\ (spc = "loop") ~> (spc = "done")
=============================================================================
