# TLA+ models of the IMBridge backup structures

This directory holds TLA+ models of the parts of the repository that have state
and control worth model checking. Each model comes with TLC configurations that
check it. The repository's behavioural core is
`src/src/share/backup/ob_backup_struct.cpp`. It holds the value types of
OceanBase's backup and archive subsystem, together with the state machines and
codecs those types carry. Every model is translated from that source. spec.md
is used only to state what the code is supposed to do.

## The system and its parts

| Part | Source | What it does | Status |
|---|---|---|---|
| Log-archive round status | `ObTenantLogArchiveStatus` (ob_backup_struct.cpp 735-1042) | Holds one tenant's archive round status (STOP, BEGINNING, DOING, STOPPING, INTERRUPTED, MIXED, PAUSED), its start and checkpoint watermarks and a mount-file flag. `update()` merges a status report into it. | **modelled**: `LogArchiveStatus`, refines `ArchiveStatusMachine` |
| Backup file / piece lifecycle | `ObBackupFileStatus::check_can_change_status` (2551-2636), `ObBackupPieceInfoKey` (2413-2471), piece status predicates | Lists the allowed moves of a backup file's status (AVAILABLE, COPYING, INCOMPLETE, DELETING, EXPIRED, BROKEN, DELETED). | **partly**: `BackupFileStatus` (the check and every change it gates, and the piece key's `operator==`/`operator<`; the read-only predicates are not modelled) |
| Path-list and hex codecs | `ObPhysicalRestoreBackupDestList` (123-620), `trim_right_backslash` (4120) | Formats comma-separated lists of backup-set paths, set descriptors and pieces, and parses them back. Also hex-encodes them. | **partly**: `PathListCodec` (plain-text and hex formatters and parsers; `assign()` and the empty `reset()` are not modelled) |
| Storage descriptor | `ObBackupStorageInfo`, `ObBackupDest` (1100-1700) | Parses `host=...&access_id=...` storage strings. Checks each device type's credentials, formats the string back and deep-copies it. | **partly**: `BackupDest` (all string-based `set()` forms, formatting, `deep_copy()`, trimming; `assign()`, `hash()` and the buffer limits are not modelled) |
| Job / task attributes | `ObBackupJobAttr`, `ObBackupSetTaskAttr`, `ObBackupLSTaskAttr`, dest state/attr (3000-4110) | Provides the `assign()` copies and the string-to-enum `set_status()` lookups. | **partly**: `TaskAttrAssign` (every `assign()`, `is_valid()` and the status/binding/interval/dest setters; the level and task-type lookups, which have the same shape, are not modelled) |
| Header checksum | `ObBackupCommonHeader` (623-738) | Computes and checks a 16-bit XOR fold over the header and a CRC over the data. | **modelled**: `BackupCommon` (header part) |
| Backup stats | `ObBackupStats` (3088-3150) | Eight counters of a backup task; `cum_with()` rolls up the LS tasks' stats into the set task's. | **modelled**: `BackupCommon` (stats part) |
| Retry helpers | `is_need_retry_error`, `get_backup_scn`, `retry_get_tenant_schema_guard` (2078-2215) | Classifies errors and retries a GTS or schema fetch until a deadline. | **modelled**: `BackupCommon` (retry part) |
| Meta pointer | `src/src/storage/meta_mem/ob_meta_pointer.h` | A reference-counted handle to tablet metadata. It loads the metadata from disk and retries while an slog checkpoint runs concurrently. | **partly**: `MetaPointer` (every method that changes the handle; the address serialization is not modelled) |
| SQL optimizer set operator and cost model | `ob_log_set.cpp`, `ob_opt_est_cost_model_vector.cpp` | Plan-tree property derivation and floating-point cost formulas. | not modelled: no state machine; its inputs are whole plans |
| Column-equal decoder | `ob_column_equal_decoder.cpp` | Decodes a column by bitmap against a reference column. | not modelled: byte-level data transformation |
| Tx replay executor, location service | `.h` files | Declarations only. | not modelled: no behaviour in the repository |
| OS errno table | `tools/ob_error/src/os_errno.cpp` | A static table. | not modelled |

## Modules

### `ArchiveStatusMachine`: what a round status promises

This is the abstract machine over `astatus`, `astart`, `acheckpoint` and
`amount`. The status moves only along the allow-table (`Allowed`):

- STOP goes only to STOP.
- BEGINNING goes to BEGINNING, DOING, STOPPING, STOP or INTERRUPTED.
- DOING goes to DOING, STOPPING, STOP, INTERRUPTED or PAUSED.
- STOPPING goes to STOPPING or STOP.
- INTERRUPTED goes to INTERRUPTED, STOPPING or STOP.
- PAUSED goes to PAUSED, DOING or STOP.
- MIXED and the unset value MAX never move.

The other three variables obey these rules:

- The checkpoint never decreases, and it changes only into or within DOING.
- The start watermark changes only on BEGINNING → DOING.
- The mount flag, once set, stays set.

### `LogArchiveStatus`: `ObTenantLogArchiveStatus::update()`

| Model | Code |
|---|---|
| `status`, `start_ts`, `checkpoint_ts`, `is_mount_file_created` | the fields `status_`, `start_ts_`, `checkpoint_ts_`, `is_mount_file_created_` |
| `ret` | the return code of the last `update()` |
| `req` | the report of the last `update()`, so that action properties can relate a call to its effect |
| `Update(n)` | `update()` (835-898): the NOT_INIT check, then the argument check, then the mount-flag check, then the mount flag adopted, then `Dispatch` |
| `Dispatch(n)` | the `switch`, with MIXED falling to `OB_ERR_SYS` |
| `UpdateStop` … `UpdatePaused` | the six `update_<status>_()` handlers |
| the `...Adopts` sets | each handler's "adopt the new status" branch |
| `BeginTsValid` | the positive-watermark check of BEGINNING → DOING (940) |
| `DoingReportOrdered` | the two ordering checks of DOING → DOING (969-976) |
| `Init` | a record from the constructor or `reset()` (status MAX) or one that has been filled in (STOP, BEGINNING, MIXED) |

Some data is abstracted:

- tenant, incarnation, round and compatible are folded into the report's `same_key` flag;
- the piece fields are never written by `update()`, and `get_piece_key()` is the operator `PieceKey`;
- timestamps range over `-1..MaxTs`, because `is_valid()` admits -1.

There is one step per call. Reports are chosen freely, which covers stale,
repeated and out-of-order reports from the servers.

`MCLogArchiveStatus` sets `MaxTs = 2`. Two positive timestamps are the fewest
that can express a report older or newer than the receiver, and 0 and -1 cover
the boundary cases at 940. The whole reachable graph has 22,178 states, at
depth 4.

No fairness is assumed and no liveness is checked. `update()` is called by the
archive scheduler outside this code, and nothing in the code makes any report
arrive.

### `BackupFileStatus`: `ObBackupFileStatus::check_can_change_status()`

`Files` is a small set of catalog rows, for example the copies of one backup
set. Each row has a `file_status`. One step is one requested change of one row
to any status, MAX included, and the row takes the new status only when
`CheckCanChangeStatus` returns SUCCESS. That is how every caller in OceanBase
uses the check.

| Model | Code |
|---|---|
| `FileStatusMoves` | the `switch` of `check_can_change_status()` (2561-2624): source status ↦ the destinations its case lets through |
| `CheckCanChangeStatus` | the whole function (2551-2636): MAX on either side is INVALID_ARGUMENT; an unlisted destination is ERR_UNEXPECTED |
| `ChangeFileStatus(f, dest)` | a caller's "check, then write the row" |
| `broken`, `incomplete` | history variables: the rows that have been BROKEN, and the rows made INCOMPLETE and not COPYING since |
| `key`, `KeyFields`, `PieceKeys` | each row's `ObBackupPieceInfoKey`: incarnation, tenant_id, round_id, backup_piece_id, copy_id (2413-2420) |
| `PieceKeyEqual`, `PieceKeyLess` | `operator==` (2440-2447) and the chain of comparisons in `operator<` (2450-2471) |

`PieceKeyLess` is checked against `LexLess`, a recursive lexicographic order on
the key's fields as a sequence, which is what a sort by these keys needs.

`MCBackupFileStatus` uses two rows as model values, and every initial status
is allowed. Each row's key is chosen in the initial state from two values of
every field but the incarnation, so every pair of keys, equal in any prefix of
fields, is compared (92,928 states). Two rows are enough because rows never
interact; the second row shows that a request touches only its own row.

### `PathListCodec`: the codecs of `ObPhysicalRestoreBackupDestList`

A restore job fills one list object with `set()`. The `get_*_format_str()`
calls write each list into the text of the job's catalog row, `row[kind]`.
The `*_assign_with_format_str()` calls parse such text back, and they are the
operators `PathListAssign` and `DescListAssign`.

Strings are sequences of one-character strings, so the separator ',' and the
digits of a set id are real characters:

- `FormatPathList` joins the paths with ',', as the `"%.*s,"` loop does.
- `FormatDescList` writes `id:TYPE` items. The last item is ended by the literal `"\0"`, which prints nothing.
- `Printed(text, buf_len)` is `databuff_printf` into a buffer of `buf_len` bytes: SIZE_OVERFLOW when the text does not fit.
- `StrTok` is `strtok_r` on ',', which drops empty tokens.
- `ScanDesc` is `sscanf(token, "%ld:%5s")`.

The hex codecs `get_*_hex_str()` are `GetListHexStr`: serialize the list,
refuse it with SIZE_OVERFLOW when the serialized size exceeds half of
`MaxText`, and `hex_print` it into a buffer of twice that size. `HexFormat(k)`
is one call. The decoders `*_assign_with_hex_str()` are the operator
`ListAssignWithHexStr`: an empty string is skipped, otherwise `hex_to_cstr`
into `length / 2 + 1` bytes, `deserialize`, and a position past the buffer is
SIZE_OVERFLOW. The library functions are not in this repository and are
modelled from spec.md §4.2: `Serialize` writes the count and then each path's
length and character codes (all below 128, so each varint is one byte),
`HexPrint` writes two digits per byte, `HexToCStr` needs an even length and
room for the NUL, and `Deserialize` reads the same layout back. The hex text is
a function of the list, so the model keeps only the result code of a call and
the property recomputes the text.

`Set` is `set()`. It appends the backup sets with their descriptors and
replaces the piece and log lists. `MaxItems` bounds the number of backup sets
an object accumulates. `MaxText` stands for `OB_MAX_LONGTEXT_LENGTH`, scaled
down. `MCPathListCodec` uses two directories of 8 and 10 characters, set ids
1 and 12 (one and two digits) and `MaxText = 20`. As text, a pair of paths
fits unless both are the longer one, so both the success and the overflow
paths of every formatter run. Serialized, one shorter path takes exactly 10
bytes, half of `MaxText`, so the hex encoder's size check is met at its
boundary, and a longer path or a pair overflows (266,221 states, about 60 s). Two configurations add one
path each: a one-letter path, shorter than its descriptor text, and a path
that contains a ','.

### `BackupDest`: `ObBackupStorageInfo` and `ObBackupDest`

The model has two destinations: `dest`, which callers set, and `copy`, which
`deep_copy()` or `set(root_path, const ObBackupStorageInfo *)` fills from
`dest`. Text is a sequence of atoms: a separator
(`&`, `?`, `/`), a scheme (`oss:`), a key with its '=' (`host=`) or a value.
`strtok_r` and the `strncmp` prefix tests treat atoms exactly as they treat
the characters the atoms stand for, because no input splits an atom.

| Model | Code |
|---|---|
| `StorageInfoSet(type, s)` | `set(device_type, storage_info)` (1203-1275), in this order: the type is written first; the strtok loop (`ParseToken`) appends each recognised token to its field (`AppendField` = `set_storage_info_field_`); the loop stops at the first failure; then the OSS and COS post-checks |
| `StorageInfoSetParts` | `set(device_type, endpoint, authorization, extension)` with `parse_authorization_()` |
| `StorageInfoStr` | `get_storage_info_str()` |
| `SetDestStr`, `SetRootInfo`, `SetParts` | the three string-based `ObBackupDest::set()` forms. After `alloc_and_init()` (`Allocated`) the destination is valid even when a later step fails. `root_path_trim_()` (`RootPathTrim`) runs only on success |
| `BackupDestStr`, `DeepCopy` | `get_backup_dest_str()` and `deep_copy()` |
| `DestEqual` | `operator==` of both classes |
| `TrimRightBackslash` | `share::trim_right_backslash()` |
| `SetRootStorageInfo`, `SetFromRootAndInfo` | `set(root_path, const ObBackupStorageInfo *)` (1663-1684): `reset()`, reject a NULL root or an info that is not `is_valid()` (`StorageInfoValid`) before allocating, print the root, `assign()` the info (`StorageInfoAssign`), trim |
| `IsBackupPathEqual` | `is_backup_path_equal()` (1714-1728) |
| `dest_tail`, `copy_tail`, `Garbage`, `FreshTail` | the bytes of `endpoint_` after its NUL |

`alloc_and_init()` placement-news the storage info into arena memory, and
its constructor writes only `endpoint_[0]`. `set()` then prints the endpoint
with its NUL, so the bytes after the NUL are whatever the arena held. A read
of them is a nondeterministic choice: each allocation picks one of two
contents (`Garbage`). `assign()` copies the whole array, so the copy keeps
the source's bytes. `is_backup_path_equal()` `MEMCMP`s the whole array, so it
reads them.

`get_storage_type_from_path()` is not in the repository. `PathTypes` models
it from the spec: the type is named by the `file://`, `oss://` or `cos://`
prefix.

`MCBackupDest` uses one directory per scheme, written with zero, one or two
trailing slashes. It gives these storage-info strings:

- none;
- the credentials alone;
- the credentials with an appid;
- the credentials with a valid delete_mode;
- the credentials with an invalid delete_mode;
- a duplicated host;
- a duplicated access_key;
- a missing access_key;
- empty and unknown tokens;
- an appid alone.

Together these reach every branch of the token loop and of the post-checks,
for each device type. The four-part `set()` gets six inputs, which reach its
success path and each of its error paths. Its callers are not in the
repository, so its endpoints take the `host=` form that the string parser
stores.

The pass run leaves out the FILE requests that carry credentials. Its
question is whether the well-formed requests, and the ill-formed ones the
code rejects, survive a copy. `dest_file_credentials` adds those requests.

### `TaskAttrAssign`: the attributes' `assign()` and setters

The model covers these attribute classes:

- the job attr (`ObBackupJobAttr`);
- the set-task attr (`ObBackupSetTaskAttr`);
- the LS-task attr (`ObBackupLSTaskAttr`);
- the set-file desc (`ObBackupSetFileDesc`);
- the archive-dest attr (`ObLogArchiveDestAtrr`) with its `ObLogArchiveDestState`.

The classes never touch one another, so a behaviour follows one object of
one class, `cls`, chosen in `Init`. This keeps the state space a sum over the
classes instead of a product. The object starts as its constructor leaves it
(`Default`). Each step is one call on the object: a setter with a string from
`Words`, or an `assign()` from a source record in `Rows[cls]`.

Each record keeps only two kinds of field: the fields `is_valid()` reads, and
the fields an `assign()` treats differently from the others. Those are the
set task's `start_ts_`, which is not copied, the LS task's `black_servers_`,
which is appended to, and the dest attr's `dest_` and `state_`, which are
copied by calls that can fail.

`ObBackupDest::deep_copy()` appears only by its outcome (`DeepCopyDest`),
as `BackupDest` establishes it:

- a NULL dest gives NOT_INIT;
- a dest that `set()` accepted is copied;
- a half-set dest fails to parse back.

| Model | Code |
|---|---|
| `LookupStatus` | `ObBackupStatus::set_status()`, `ObBackupTaskStatus::set_status()`, `ObLogArchiveDestState::set_state()`. There is no "not found" branch, so an unknown string gives SUCCESS and leaves the status unchanged |
| `LookupSetFileStatus` | `ObBackupSetFileDesc::set_backup_set_status()`, which gives ENTRY_NOT_EXIST for an unknown string |
| `JobAssign`, `FileDescAssign` | correct validated copies |
| `SetTaskAssign` | copies everything but `start_ts_` / `end_ts_` |
| `LSTaskAssign` | `append(black_servers_, ...)` |
| `DestStateAssign`, `DestAttrAssign` | the inverted `if (that.is_valid())` guard; the scalars are copied before `deep_copy()` and `state_.assign()` |

`MCTaskAttrAssign` gives each class one valid source record and one or two
invalid ones. It also gives strings that hit, miss or are empty for every
lookup table. `MaxBlack = 2` allows the two `assign()` calls that expose the
append.

### `MetaPointer`: `ObMetaPointer<T>` (ob_meta_pointer.h)

A meta pointer names a meta block on disk (`phy_addr_`). Once the block is
loaded, it also names a pool object (`obj_.ptr_`). Each live pointer and each
`ObMetaObjGuard` that names an object holds one reference on it. The holder
that drops the count to zero returns the object to the pool.

The pointer map is outside this repository. It calls the methods of one
pointer under that pointer's bucket lock, so each method is one atomic step.
Steps on different pointers and guards that share an object interleave.

`load_obj_from_disk()` is the exception. The header says it runs without
locks, concurrently with the slog checkpoint, so a loader takes four separate
steps:

1. `LoadStart`: `acquire_obj()`;
2. `ReadAddr`: `read_from_disk()` reads `phy_addr_`;
3. `ReadDisk`: the slog handler reads that address, retrying on
   OB_SEARCH_NOT_FOUND;
4. `Deserialize`.

`Hook` (`hook_obj()`, under the lock) ends the load. When the pointer already
holds an object (another load, `set_obj()` or `operator=` got there first),
the hook fails, and its failure block (242-246) returns `t` to the pool and
also sets `obj_.ptr_ = nullptr` without `dec_ref()` of the object the pointer
held, as the code does. `LoadError` is an I/O or deserialize failure, after
which `release_obj()` returns the object.

The checkpoint (`Checkpoint`) moves a pointer's block to a fresh address,
with `set_addr_without_reset_obj()`. With `wash`, it also drops the in-memory
object, with `set_addr_with_reset_obj()`. A block can be read while some live
pointer names its address. Addresses are not reused.

| Model | Code |
|---|---|
| `live`, `addr`, `ptr` | a constructed pointer, `phy_addr_`, `obj_.ptr_` (slot `p3` starts as the raw buffer `deep_copy()` placement-news into) |
| `refcnt`, `free` | the objects' reference counts and the pool |
| `guard` | the objects named by caller guards (`Guards`) and by each loader's guard |
| `Unref` / `IncRef` | `dec_ref()` with release at zero (`reset_obj()`, 425-441) / `inc_ref()` |
| `ResetObj`, `SetObj`, `GetInMemoryObj`, `DeepCopy`, `Assign`, `Destroy` | `reset_obj()`, `set_obj()`, `get_in_memory_obj()`, `deep_copy()`, `operator=`, `~ObMetaPointer()`/`reset()` |
| `ConstructWithGuard` | `ObMetaPointer(addr, guard)` (92-105): placement-new into a raw buffer with a fresh address, taking the guard's object and a reference |
| `GuardReset` | `ObMetaObjGuard::reset()`, the guard's side of the contract the header relies on |

Inputs:

- `set_obj()` is given guards that hold an object, as its callers do.
- `Destroy` is not taken for a pointer while a load is in progress for it;
  the map ensures this.
- A failed `acquire_obj()` (empty pool, null pool) changes nothing and is
  left out.

The fairness is weak fairness on each loader's `ReadAddr`/`ReadDisk`/
`Deserialize`/`Hook`: the loading thread keeps running. Errors, callers and
the checkpoint are not obliged to act.

`MCMetaPointer` has:

- two map entries and one raw buffer;
- two pool objects, so a load can take a second object while the first is
  hooked;
- one caller guard;
- one loader;
- one spare address, so the checkpoint can move a block under a loader
  that has just read its address.

Each lost hook leaves a reference that nobody drops, so counts could grow
without end. `MaxRef = 6` bounds them: a step that would `inc_ref()` an
object to more than 6 is not taken (`BelowMaxRef`). Five holders (three
pointers, the guard and the loader's guard) is the most a correctly counted
object can have, so only counts that a lost hook has already made wrong
reach the bound.

That gives 957,644 states in about 2.5 minutes. A second loader and a second
spare address run past 5 million states without finishing.

### `BackupCommon`: the common header, the retry helpers, the stats, the backup info, the restore info and the piece info

The header part follows one `ObBackupCommonHeader` through one file:

1. the writer runs `reset()` and `SetField`;
2. it seals the header with `set_checksum(payload)` or `set_header_checksum()`;
3. `Write` stores the header and payload;
4. storage may corrupt one bit of any header field (`FlipHeaderBit`) or
   replace the payload bytes, keeping their length (`CorruptPayload`);
5. the reader runs `check_valid()` and then `check_data_checksum()`.

Each field keeps its width:

- the 16-bit fields are naturals below 2^16, an `int16_t` by its bit pattern;
- `compressor_type_` is below 2^8;
- an `int64_t` is four 16-bit chunks, lowest first.

`CalcHeaderChecksum` is therefore the code's fold, bit for bit, with
`Bitwise`'s `^^`. `format_i64` is not in this repository; it is modelled from
spec.md §4.5 as four 16-bit folds. `ob_crc64` is a constant function over
three payloads: the empty one, with CRC 0, and two of length 5 with different
CRCs.

The stats part follows the set task's `ObBackupStats` (`agg`) as its LS
tasks' stats are added with `cum_with()` (`StatsCumWith`, each task at most
once between resets) and cleared with `reset()` (`StatsReset`). `LSStats`
gives three LS tasks fixed stats; one is all zero, and the finished-file
counts differ, so a roll-up that copies or keeps a counter instead of adding
or clearing it shows. `FiniteSetsExt`'s `MapThenSumSet` is the reference sum.

The info part runs two `ObBaseBackupInfoStruct` objects (`infos`) through
the calls a caller makes:

- `reset()` (`InfoReset`);
- filling the plain fields from a catalog row (`InfoRows`);
- `set_info_backup_status(buf)` with every status name and an unknown one;
- `x.assign(y)`;
- `x = y`, whose `operator=` logs and drops `assign()`'s error;
- `x.check_backup_info_match(y)`.

`ObBackupInfoStatus`, `ObBackupType` and `ObBackupEncryptionMode` keep their
inline predicates in a header that is not in the repository. A status, type
or mode is therefore its name, and "valid" means "not MAX". `OB_INVALID_ID` is
`UINT64_MAX`; `MCInvalidId`, the largest integer TLC holds, stands for it.
The rows are a cleaned info, an info of a backup in progress, and an info
with tenant id 0. The in-progress row sets the three fields
`check_backup_info_match()` skips, so a copy that misses one of them shows.

The restore part runs two `ObPhysicalRestoreInfo` objects (`restores`)
through the calls made on them:

- the constructor (`RestoreNew`);
- `destroy()` (`RestoreDestroy`), which clears every field but
  `multi_restore_path_list_`;
- a caller filling in a restore request (`RestoreRows`: one that names the
  backup by a dest string, one that leaves it to the path list);
- the list's `set()` (`DestListSet`), which assigns the piece and log lists
  and pushes each backup set's path and description;
- `x.assign(y)` (`RestoreAssign`), which copies the fields and then calls the
  list's `assign()` (`DestListAssign`), four `ObSArray` copies in order that
  stop at the first failure.

`ObSArray` is not in the repository. Each `assign()` or `push_back()` may run
out of memory (`ArrayAssign`, `PushBack`); a failed `assign()` leaves a proper
prefix of the source. `MaxSets = 1` bounds the set paths and descriptions
that `set()` pushes. A failed list copy can empty the set paths and keep the
descriptions, so without the bound `set()` would grow the descriptions
forever. With `MaxSets = 2` the whole run takes more than five minutes.

The piece part runs two `ObBackupPieceInfo` objects (`pieces`) and one
`ObNonFrozenBackupPieceInfo` (`nonfrozen`) through the calls made on them:

- `reset()` (`PieceReset`, also the constructor);
- a caller filling a piece from a catalog row (`PieceRows`: the sys
  tenant's active piece, its frozen predecessor, and a sys piece without a
  dest, which `is_valid()` rejects);
- `x.init_piece_info(y, tenant_id)` (`PieceInit`) with every pair of objects,
  `x` itself included, and the tenants 1002, 0 and `OB_INVALID_ID`. The
  code's `reset()` of `*this` comes first, so when `y` is `x` the sys piece
  it checks has already been cleared (`SysPieceSeen`). The pieces it makes
  belong to user tenants; offered back as `sys_piece`, they are rejected;
- the non-frozen info's `reset()`, a caller filling it from a current piece
  and, optionally, another piece as the previous one, and its
  `get_backup_piece_info()` and `get_backup_piece_id()`, which go through
  `is_valid()` (`NonFrozenIsValid`: a previous piece must not be ACTIVE).

Piece statuses, file statuses and the compatibility mode are their names,
and "valid" means "not MAX".

The retry part covers two loops and the classifier:

- `get_backup_scn()`: `GetBackupScn`, then `GtsTimeout` (more than `Timeout`
  10 ms sleeps since `start_time`) or `GtsPoll` (GTS answers SUCCESS, an
  error, or OB_EAGAIN, which sleeps one tick). `Tick` is time passing
  otherwise.
- `retry_get_tenant_schema_guard()`: `RetryGetTenantSchemaGuard` and
  `SchemaAttempt`, up to `MaxRetryTimes`.
- `is_need_retry_error()`: `IsNeedRetryError`.

The fairness is weak fairness on:

- `Tick`: the wall clock advances;
- `GtsTimeout`: the thread evaluates its deadline once it has passed;
- `SchemaAttempt`: the thread makes its next attempt.

`GtsPoll` is not fair, since GTS may answer OB_EAGAIN forever.

Bounds:

- `Timeout = 3` and `MaxRetryTimes = 3`: the deadline and the give-up each
  come after several rounds.
- `MaxCorrupt = 1`: spec.md §8.5 claims detection of single-bit corruption.
  Two flips of the same bit position in two fields cancel in an XOR, which is
  the design, not a bug.

## Runs

| Run | cfg | Expect | What it shows |
|---|---|---|---|
| `archive_status` | `LogArchiveStatus.cfg` | pass | See the property list below this table. |
| `archive_rejected_update` | `LogArchiveStatusRejected.cfg` | violation | `RejectedUpdateLeavesStatus`, the promise of spec.md §8.2 that a rejected update leaves the record unmodified, is broken. `update()` writes the mount flag at line 852, before the handler rejects the report. TLC's trace: a STOP receiver gets a BEGINNING report with mount=TRUE, the handler returns NOT_MATCH, and the flag is now TRUE. |
| `archive_doing_start` | `LogArchiveStatusDoingStart.cfg` | violation | `DoingRejectsEarlierStart`, the spec.md §4.3/§8.4 rule that a DOING → DOING report with a smaller start_ts is rejected, is broken. The code rejects a *larger* start_ts (969) and accepts a smaller one. |
| `file_status` | `BackupFileStatus.cfg` | pass | `DeletionIsFinal` (action): no sequence of requests takes a DELETING or DELETED row out of those two. `BrokenNeverRestored`: a row once BROKEN stays BROKEN, DELETING or DELETED. `IncompleteNeedsCopy`: a row made INCOMPLETE is AVAILABLE again only after COPYING. `PieceKeyOrderIsLexicographic`: the piece key's `operator<` is the lexicographic order of its five fields, and `operator==` holds exactly when neither key is less. |
| `path_list_codec` | `PathListCodec.cfg` | pass | `TypeOK`, which includes that the path and descriptor lists stay parallel. `PathListRoundTrip`: every path-list text written to the row parses back to its list. `DescListRoundTrip`: every descriptor text written parses back, without error, to its descriptors. `HexListRoundTrip`: a list whose serialization fits half the column is hex-encoded without error and decodes back, without error, to itself (spec.md §8.1). |
| `desc_list_buffer` | `PathListCodecDescBuffer.cfg` | violation | `DescListFormatsWhenItFits` is broken. `get_backup_set_desc_list_format_str()` sizes its buffer from the backup-set *path* list (165). A descriptor list longer than its paths gets SIZE_OVERFLOW even though it fits the column. |
| `backup_dest` | `BackupDest.cfg` | pass | `AcceptedRootTrimmed`: every destination a `set()` or `deep_copy()` accepted has no trailing '/'. `DeepCopyPreservesDest` (action): `deep_copy()` of an accepted destination succeeds and is `operator==` to it. `InfoCopyPreservesDest` (action): a copy made with `set(root_path, storage_info)` succeeds, is `operator==` to its source, and `is_backup_path_equal()` finds the two equal. The last holds because `assign()` copies the endpoint bytes after the NUL, which nobody wrote. |
| `dest_file_credentials` | `BackupDestFileCreds.cfg` | violation | `DeepCopyPreservesDest` is broken. TLC's trace: `set("file://r/", "host=h&access_id=a&access_key=k")` returns SUCCESS, because the two-argument `set()` checks credentials only for OSS (1263) and COS, against spec.md §3. Then `deep_copy()` returns SUCCESS with empty credentials, because `get_storage_info_str()` writes nothing for FILE (1362), against §4.1. |
| `task_attr_assign` | `TaskAttrAssign.cfg` | violation | `AssignIsValidatedCopy`, the spec.md §5/§8.9 promise that `assign()` refuses an invalid source and otherwise copies it, is broken. TLC's trace: a fresh set-task attr is assigned a valid source with start_ts 1, returns SUCCESS and keeps start_ts 0, because `start_ts_`/`end_ts_` are not copied (3426). With the other classes run one at a time (the `Classes` definition narrowed), the same property also fails. For the LS task, a second `assign()` keeps the first task's black servers (3487). For the dest attr, an invalid source is half-copied while INVALID_ARGUMENT is returned (4099-4115). It holds for the job attr and the set-file desc. |
| `meta_pointer` | `MetaPointer.cfg` | pass | Under any interleaving of the pointer methods, guards, checkpoint moves and an unlocked load, these hold. `TypeOK` includes that no count goes below zero. `NoDanglingHandle`: no object in the pool is named or being loaded. `LoadTerminates`: every load ends, because the retry loop reads `phy_addr_` again each round. `CHECK_DEADLOCK FALSE`: once the map has destroyed every pointer and guards are empty, nothing is left to do. |
| `meta_pointer_lost_hook` | `MetaPointerLostHook.cfg` | violation | `NoLeakedObject`, that every object out of the pool is named by a pointer or guard or owned by a load, is broken by `hook_obj()` (244). TLC's trace: a load of `p2` starts while `p2` is empty; `operator=` then gives `p2` the hooked `o1`; the load's hook fails on "obj already hooked", and its failure block releases its own `t` and also nulls `p2`'s `obj_.ptr_` without `dec_ref()`. Once the other holders let go, `o1` keeps count 1 with no holder and never returns to the pool. |
| `backup_common` | `BackupCommon.cfg` | pass | `AcceptedIsWhatWasWritten`: after any one-bit header corruption or payload corruption, a read that `check_valid()` and `check_data_checksum()` both accept returned exactly what was written (spec.md §8.5, checked over all 328 header bits). `TypeOK` includes that the header checksum stays a 16-bit value. `RetryLoopsEnd`: `get_backup_scn()` returns, never with OB_EAGAIN, and `retry_get_tenant_schema_guard()` gives up after `MAX_RETRY_TIMES`. `StatsAreSumOfAdded`: after any sequence of `cum_with()` and `reset()` calls, the set task's stats are the field-wise sum of exactly the LS tasks added since the last reset, in any order (spec.md §8.6), and are valid. `InfoCopyIsWhole` (action): after `x.assign(y)` or `x = y` of a valid `y`, `x` is `y` field for field, `check_backup_info_match(y)` succeeds on it, and `has_cleaned()` agrees. From an invalid `y`, `x` is unchanged, and only `assign()` returns the error. `RestoreAssignIsWhole` (action): `ObPhysicalRestoreInfo::assign()` returns SUCCESS exactly when the target has become the source, all four lists included, whichever list copy runs out of memory. `PieceInitIsWhole` (action): after `init_piece_info()` the target is either the sys piece with only the tenant id replaced (valid exactly when that id is positive) or, on any rejection, the reset piece. It never holds a mixture of its old piece and the new one. |
`archive_status` checks these three properties:

- `TypeOK`: the watermarks are never -1.
- `DoingHasPositiveTs`: DOING and PAUSED always carry positive watermarks.
- `RefinesArchiveStatusMachine`: `update()` implements `ArchiveStatusMachine`.

Every property of a passing run has a mutant: a plausible bug in the code, written as an operator that the check substitutes for the definition it mutates. TLC must catch each one:

| Property | Mutant |
|---|---|
| `TypeOK` | the start-timestamp check dropped from `BeginTsValid` |
| `DoingHasPositiveTs` | the checkpoint check dropped from `BeginTsValid` |
| `RefinesArchiveStatusMachine` | the checkpoint-order check dropped from `DoingReportOrdered` |
| `DeletionIsFinal` | DELETING may go back to EXPIRED |
| `BrokenNeverRestored` | BROKEN may go to EXPIRED |
| `IncompleteNeedsCopy` | INCOMPLETE may go straight to AVAILABLE |
| `PieceKeyOrderIsLexicographic` | `operator<` returns false on equal tenant ids instead of going on to the round id |
| `TypeOK` (codec) | `set()` appends the paths but not the descriptors |
| `PathListRoundTrip` | the formatter drops the ',' separators |
| `DescListRoundTrip` | `sscanf` with `%3s`, too narrow for "FULL" |
| `HexListRoundTrip` | the hex buffer as large as the serialized bytes, not twice; and, separately, the decode buffer `length / 2` with no room for the NUL |
| `DeepCopyPreservesDest` | `get_storage_info_str()` leaves out the extension (a COS destination then loses its appid) |
| `AcceptedRootTrimmed` | `root_path_trim_()` replaced by the code's own `trim_right_backslash()`, which leaves "r/" of "r//" |
| `TypeOK` (meta pointer) | `reset_obj()` leaves `obj_.ptr_` set, so a second reset drives the count below zero |
| `NoDanglingHandle` | `set_obj()` takes the guard's object before `reset_obj()` |
| `LoadTerminates` | the retry loop goes back to the disk read with the stale address |
| `TypeOK` (header) | `format_i64` folding 32-bit halves, uncut |
| `AcceptedIsWhatWasWritten` | `calc_header_checksum()` without `align_length_` |
| `RetryLoopsEnd` | `start_time` taken again at each round of the GTS loop |
| `StatsAreSumOfAdded` | `cum_with()` copies `finish_file_count_` instead of adding it; and, separately, `reset()` keeps it |
| `InfoCopyPreservesDest` | `ObBackupStorageInfo::assign()` copies the arrays as strings, so the copy keeps its own bytes after the endpoint's NUL |
| `InfoCopyIsWhole` | `ObBaseBackupInfoStruct::assign()` forgets `passwd_` |
| `RestoreAssignIsWhole` | `ObPhysicalRestoreBackupDestList::assign()` forgets `backup_set_desc_list_`, the list added last |
| `PieceInitIsWhole` | `init_piece_info()` checks its arguments before `reset()`, so a rejected call leaves the old piece in place |

## Plan

The model is built in the order below. Each item adds its module and run, with
map entries, mutants and the hazards it covers in `PROJECT.json`.

1. **Done: `LogArchiveStatus` with its refinement.**
2. **Done: `BackupFileStatus`.** Left out: the read-only predicates (`can_show_in_preview()`, the piece-status checks). They change no state.
3. **Done: `PathListCodec`.** The plain-text codecs first; the hex codecs were added later, with the library's serialize, hex_print, hex_to_cstr and deserialize modelled from spec.md §4.2. `trim_right_backslash()` moved to `BackupDest`, next to the `root_path_trim_()` it should agree with.
4. **Done: `BackupDest`.** `set(root, const ObBackupStorageInfo *)`, `assign()` and `is_backup_path_equal()` were added later. Left out: the hash functions and the fixed buffer lengths. Open hazard: a duplicated delete_mode is accepted by `set()` but not by `deep_copy()`.
5. **Done: `TaskAttrAssign` (one violation run; see above).** Originally planned as: Model the `assign()` copies. Two are known to be wrong:
   - the LS task appends `black_servers_` instead of copying it (3487);
   - the dest state and dest attr `assign()` reject exactly the valid sources (3842, 4099).
   
   `set_status()` with an unknown string returns success.
6. **Done: the header part of `BackupCommon`.** It checks single-bit detection over a write/corrupt/read protocol, not only the fold.
7. **Done: `MetaPointer`.** Left out: the address `serialize()`/`deserialize()`, and failing `do_post_work_for_load()`, which the base class never does.
8. **Done: the retry part of `BackupCommon`.** The two parts share one run because they are independent and small.
9. **Done: the stats part of `BackupCommon`, the piece key's order in `BackupFileStatus`, and the guard constructor of `MetaPointer`.** They join existing runs: each is small and independent of what the run already checks.
10. **Done: the info part of `BackupCommon`** (`ObBaseBackupInfoStruct`, `ObBackupInfoStatus`). It joins the `backup_common` run.
11. **Done: the restore part of `BackupCommon`** (`ObPhysicalRestoreInfo` with the dest list's `assign()` and `set()`, under allocation failure). It joins the `backup_common` run.
12. **Done: the piece part of `BackupCommon`** (`ObBackupPieceInfo`, `init_piece_info()`, `ObNonFrozenBackupPieceInfo`). It joins the `backup_common` run.

Not yet modelled:

- the piece status machine, which has no transition code in this repository;
- `ObBackupPieceInfo::get_backup_dest()` (2738), which is `ObBackupDest::set()` of the stored string, as `BackupDest` models it;
- the tenant id 0 that `init_piece_info()` accepts, so that it returns success with an invalid piece. `PieceInitIsWhole` states this behaviour rather than flagging it as a violation;
- `ObBackupSetDesc` (1838-1875), a two-field copy, and `ObBackupType::set_backup_type()`, the same lookup as `set_info_backup_status()`;
- the deep_copy() case of `is_backup_path_equal()`: operator== holds but the endpoint tails may differ. The model has this case (`copy_tail` is fresh after `deep_copy()`), but no run states it, because the function has no caller in the repository;
- `get_backup_info_default_timeout_ctx()` (2050), which replaces a caller's deadline with now + 2 s when the worker has none: a pure computation on two clocks;
- the drift of the set paths and descriptions after a failed list `assign()`, and the paths a destroyed restore info keeps. Both are reached by the restore part, but they are disagreements that only a violation run could show, and every run slot is taken;
- a path containing ',': the formatter does not escape it and `strtok_r` splits on it, so '/a,b' parses back as '/a' and 'b', against spec.md §8.1. An earlier violation run of `PathListRoundTrip` showed this. That run slot now holds `meta_pointer_lost_hook`, and `PathListCodec`'s inputs are comma-free;
- the retry classification of a corrupted header: `check_valid()` returns OB_INVALID_ERROR, which `is_need_retry_error()` retries. This is a hazard in `PROJECT.json`, without a run of its own.
