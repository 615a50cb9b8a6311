---------------------------- MODULE TaskAttrAssign ----------------------------
(***************************************************************************)
(* The attribute records the backup scheduler copies between its job,      *)
(* task and archive-destination tiers, and the string setters that fill   *)
(* them from catalog rows (src/share/backup/ob_backup_struct.cpp):         *)
(* ObBackupJobAttr, ObBackupSetTaskAttr, ObBackupLSTaskAttr,               *)
(* ObBackupSetFileDesc and ObLogArchiveDestAtrr with its                  *)
(* ObLogArchiveDestState.                                                  *)
(*                                                                         *)
(* The classes never touch one another, so a behaviour follows one object *)
(* of one class (cls, chosen at the start): the calls made on it, each a  *)
(* setter with a string from Words or an assign() from a source record    *)
(* of Rows[cls], the records the scheduler loads from its tables.  Each   *)
(* record keeps the fields is_valid() reads and the fields an assign()    *)
(* treats differently from the others.                                     *)
(***************************************************************************)
EXTENDS Integers, Sequences

CONSTANTS
  Rows,       \* class |-> the source records assign() may be given
  Words,      \* strings handed to the setters, "" among them
  Times,      \* [value, ok]: ObConfigTimeParser::get() results
  MaxBlack    \* bound on the black_servers_ an LS task attr accumulates

Classes == {"job", "set_task", "ls_task", "file_desc", "dest_attr"}

\* The string tables of the setters.
BackupStatusStrs == {"INIT", "DOING", "COMPLETED", "FAILED", "CANCELING", "CANCELED",
                     "BACKUP_SYS_META", "BACKUP_USER_META", "BACKUP_DATA_SYS",
                     "BACKUP_DATA_MINOR", "BACKUP_DATA_MAJOR", "BACKUP_LOG"}
TaskStatusStrs == {"INIT", "PENDING", "DOING", "FINISH"}
SetFileStatusStrs == {"DOING", "SUCCESS", "FAILED"}
DestStateStrs == {"ENABLE", "DEFER"}
BindingStrs == {"OPTIONAL", "MANDATORY"}

VARIABLES
  cls,   \* the class of the object
  obj,   \* the object
  ret,   \* return code of the last call
  op     \* the last call: [kind, src] (src is the assign() source)

vars == <<cls, obj, ret, op>>

-----------------------------------------------------------------------------
\* The constructors.  A status object starts at its MAX value; the dest
\* attr's constructor sets binding OPTIONAL, dest_id 0, the default piece
\* switch interval and state ENABLE, and its dest_ is not set.
Default ==
  [job       |-> [incarnation_id |-> 0, start_ts |-> 0, status |-> "MAX",
                  plus_archivelog |-> FALSE],
   set_task  |-> [task_id |-> 0, status |-> "MAX", start_ts |-> 0],
   ls_task   |-> [task_id |-> 0, status |-> "MAX", turn_id |-> 0, black_servers |-> <<>>],
   file_desc |-> [backup_set_id |-> 0, status |-> "MAX", plus_archivelog |-> FALSE],
   dest_attr |-> [dest |-> "NULL", dest_id |-> 0, piece_switch_interval |-> "ok",
                  binding |-> "OPTIONAL", state |-> "ENABLE"]]

\* is_valid() of each class.
IsValid(c, r) ==
  CASE c = "job"       -> r.incarnation_id > 0 /\ r.start_ts > 0 /\ r.status \in BackupStatusStrs
    [] c = "set_task"  -> r.task_id > 0 /\ r.status \in TaskStatusStrs
    [] c = "ls_task"   -> r.task_id > 0 /\ r.turn_id > 0 /\ r.status \in TaskStatusStrs
    [] c = "file_desc" -> r.backup_set_id > 0 /\ r.status \in SetFileStatusStrs
    [] c = "dest_attr" -> r.dest # "NULL" /\ r.dest_id > 0
                          /\ r.piece_switch_interval = "ok" /\ r.state \in DestStateStrs

\* ObBackupStatus::set_status() and ObBackupTaskStatus::set_status(): the
\* loop looks for a match and has no "not found" branch, so an unknown
\* string returns OB_SUCCESS and leaves the status as it was.
LookupStatus(strs, cur, s) ==
  CASE s = ""             -> [ret |-> "INVALID_ARGUMENT", status |-> cur]
    [] s \in strs          -> [ret |-> "SUCCESS", status |-> s]
    [] OTHER               -> [ret |-> "SUCCESS", status |-> cur]

\* ObBackupSetFileDesc::set_backup_set_status(): ENTRY_NOT_EXIST when no
\* string matches.
LookupSetFileStatus(cur, s) ==
  IF s \in SetFileStatusStrs THEN [ret |-> "SUCCESS", status |-> s]
  ELSE [ret |-> "ENTRY_NOT_EXIST", status |-> cur]

\* set_plus_archivelog(): "ON" or "OFF", anything else rejected.
PlusArchivelog(cur, s) ==
  CASE s = "ON"  -> [ret |-> "SUCCESS", value |-> TRUE]
    [] s = "OFF" -> [ret |-> "SUCCESS", value |-> FALSE]
    [] OTHER     -> [ret |-> "INVALID_ARGUMENT", value |-> cur]

\* ObLogArchiveDestState::set_state(): the loop breaks at a match and has
\* no "not found" branch either.
LookupDestState(cur, s) == LookupStatus(DestStateStrs, cur, s)

\* ObLogArchiveDestAtrr::set_binding(): an unknown string is rejected.
LookupBinding(cur, s) ==
  CASE s \in BindingStrs -> [ret |-> "SUCCESS", binding |-> s]
    [] OTHER             -> [ret |-> "INVALID_ARGUMENT", binding |-> cur]

-----------------------------------------------------------------------------
(* assign()                                                                *)

\* ObBackupJobAttr::assign() and ObBackupSetFileDesc::assign(): refuse an
\* invalid source, otherwise copy every field.
CopyAssign(c, dst, src) ==
  IF ~IsValid(c, src) THEN [ret |-> "INVALID_ARGUMENT", obj |-> dst]
  ELSE [ret |-> "SUCCESS", obj |-> src]

\* ObBackupSetTaskAttr::assign(): start_ts_ and end_ts_ are not in the
\* list of copied fields, so the destination keeps its own.
SetTaskAssign(dst, src) ==
  IF ~IsValid("set_task", src) THEN [ret |-> "INVALID_ARGUMENT", obj |-> dst]
  ELSE [ret |-> "SUCCESS", obj |-> [src EXCEPT !.start_ts = dst.start_ts]]

\* ObBackupLSTaskAttr::assign(): black_servers_ is append()ed to, so the
\* destination keeps the servers it had.
LSTaskAssign(dst, src) ==
  IF ~IsValid("ls_task", src) THEN [ret |-> "INVALID_ARGUMENT", obj |-> dst]
  ELSE [ret |-> "SUCCESS",
        obj |-> [src EXCEPT !.black_servers = dst.black_servers \o src.black_servers]]

\* ObLogArchiveDestState::assign(): the guard is if (that.is_valid()), so a
\* valid source is refused and an invalid one copied.
DestStateAssign(cur, that) ==
  IF that \in DestStateStrs THEN [ret |-> "INVALID_ARGUMENT", state |-> cur]
  ELSE [ret |-> "SUCCESS", state |-> that]

\* ObBackupDest::deep_copy() as BackupDest models it: a NULL source is
\* NOT_INIT and leaves the copy reset; a source a set() accepted is copied;
\* a half-set source ("half", left by a failed set()) is valid but does not
\* parse back, and leaves a half-set copy.
DeepCopyDest(that) ==
  CASE that = "NULL" -> [ret |-> "NOT_INIT", dest |-> "NULL"]
    [] that = "good" -> [ret |-> "SUCCESS", dest |-> "good"]
    [] that = "half" -> [ret |-> "INVALID_BACKUP_DEST", dest |-> "half"]

\* ObLogArchiveDestAtrr::assign(): the same inverted guard; the scalars are
\* copied before dest_.deep_copy() and state_.assign(), which may fail.
DestAttrAssign(dst, that) ==
  IF IsValid("dest_attr", that) THEN [ret |-> "INVALID_ARGUMENT", obj |-> dst]
  ELSE LET scalars == [dst EXCEPT !.binding = that.binding, !.dest_id = that.dest_id,
                                  !.piece_switch_interval = that.piece_switch_interval]
           d  == DeepCopyDest(that.dest)
           st == DestStateAssign(dst.state, that.state)
       IN IF d.ret # "SUCCESS" THEN [ret |-> d.ret, obj |-> [scalars EXCEPT !.dest = d.dest]]
          ELSE [ret |-> st.ret, obj |-> [scalars EXCEPT !.dest = d.dest, !.state = st.state]]

JobAssign(dst, src) == CopyAssign("job", dst, src)
FileDescAssign(dst, src) == CopyAssign("file_desc", dst, src)

Assigned(c, dst, src) ==
  CASE c = "job"                  -> JobAssign(dst, src)
    [] c = "file_desc"            -> FileDescAssign(dst, src)
    [] c = "set_task"             -> SetTaskAssign(dst, src)
    [] c = "ls_task"              -> LSTaskAssign(dst, src)
    [] c = "dest_attr"            -> DestAttrAssign(dst, src)

-----------------------------------------------------------------------------
Init ==
  /\ cls \in Classes
  /\ obj = Default[cls]
  /\ ret = "SUCCESS"
  /\ op = [kind |-> "init", src |-> obj]

\* A call that leaves the object as new with return code code.
Call(kind, new, code) ==
  /\ obj' = new
  /\ ret' = code
  /\ op' = [kind |-> kind, src |-> obj]
  /\ UNCHANGED cls

Assign(src) ==
  /\ cls = "ls_task" => Len(obj.black_servers) + Len(src.black_servers) <= MaxBlack
  /\ LET r == Assigned(cls, obj, src)
     IN /\ obj' = r.obj
        /\ ret' = r.ret
        /\ op' = [kind |-> "assign", src |-> src]
        /\ UNCHANGED cls

\* set_status() / set_backup_set_status() / set_state() on the object's
\* status field.
SetStatus(s) ==
  LET r == CASE cls = "job"       -> LookupStatus(BackupStatusStrs, obj.status, s)
             [] cls = "file_desc" -> LookupSetFileStatus(obj.status, s)
             [] cls = "dest_attr" -> LET x == LookupDestState(obj.state, s)
                                     IN [ret |-> x.ret, status |-> x.status]
             [] OTHER             -> LookupStatus(TaskStatusStrs, obj.status, s)
  IN Call("set_status",
          IF cls = "dest_attr" THEN [obj EXCEPT !.state = r.status]
          ELSE [obj EXCEPT !.status = r.status], r.ret)

SetPlusArchivelog(s) ==
  /\ cls \in {"job", "file_desc"}
  /\ LET r == PlusArchivelog(obj.plus_archivelog, s)
     IN Call("set_plus_archivelog", [obj EXCEPT !.plus_archivelog = r.value], r.ret)

SetBinding(s) ==
  /\ cls = "dest_attr"
  /\ LET r == IF s = "" THEN [ret |-> "INVALID_ARGUMENT", binding |-> obj.binding]
              ELSE LookupBinding(obj.binding, s)
     IN Call("set_binding", [obj EXCEPT !.binding = r.binding], r.ret)

\* set_piece_switch_interval(): the parsed value is stored first and
\* replaced by 0 when it does not parse or is below the minimum.
SetPieceSwitchInterval(t) ==
  /\ cls = "dest_attr"
  /\ IF t.ok /\ t.value = "ok"
     THEN Call("set_piece_switch_interval", [obj EXCEPT !.piece_switch_interval = "ok"], "SUCCESS")
     ELSE Call("set_piece_switch_interval", [obj EXCEPT !.piece_switch_interval = "low"],
               "INVALID_ARGUMENT")

\* set_log_archive_dest(): dest_.set(), whose outcome BackupDest models.
SetLogArchiveDest(d) ==
  /\ cls = "dest_attr"
  /\ Call("set_log_archive_dest", [obj EXCEPT !.dest = d],
          IF d = "good" THEN "SUCCESS" ELSE "INVALID_BACKUP_DEST")

Next ==
  \/ \E src \in Rows[cls] : Assign(src)
  \/ \E s \in Words : SetStatus(s)
  \/ \E s \in Words : SetPlusArchivelog(s)
  \/ \E s \in Words : SetBinding(s)
  \/ \E t \in Times : SetPieceSwitchInterval(t)
  \/ \E d \in {"good", "half"} : SetLogArchiveDest(d)

Spec == Init /\ [][Next]_vars

-----------------------------------------------------------------------------
(* Properties.                                                             *)

\* spec.md 5 and 8.9: assign() is a validated deep copy.  It refuses a
\* source that fails is_valid() with INVALID_ARGUMENT and leaves the
\* destination as it was; from a valid source it succeeds and the
\* destination becomes that source, whatever it held before.
AssignIsValidatedCopy ==
  [][op'.kind = "assign" =>
       IF IsValid(cls, op'.src) THEN ret' = "SUCCESS" /\ obj' = op'.src
       ELSE ret' = "INVALID_ARGUMENT" /\ obj' = obj]_vars
=============================================================================
