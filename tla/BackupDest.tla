------------------------------ MODULE BackupDest ------------------------------
(***************************************************************************)
(* The backup destination descriptor, ObBackupStorageInfo and ObBackupDest *)
(* in src/share/backup/ob_backup_struct.cpp.                               *)
(*                                                                         *)
(* A destination is a root path ("oss://bucket/dir") and a storage info    *)
(* (device type, endpoint, access_id, access_key, extension).  It is set   *)
(* from a string "root?host=..&access_id=..&access_key=..[&ext]", from a   *)
(* root path and such a storage-info string, or from a root path and its   *)
(* four parts; deep_copy() formats the source back to a string and sets    *)
(* the copy from it.                                                       *)
(*                                                                         *)
(* Text is a sequence of atoms: a separator ("&", "?", "/"), a scheme      *)
(* ("oss:"), a key with its '=' ("host=") or a value ("h").  strtok and    *)
(* the strncmp prefix tests of the code work on atoms exactly as on the    *)
(* characters they stand for, because no input splits an atom.            *)
(***************************************************************************)
EXTENDS Integers, Sequences, SequencesExt

CONSTANTS
  Requests,   \* <<root path, storage-info text>> pairs handed to set()
  FourArgs    \* [path, endpoint, authorization, extension] handed to set()

Types == {"FILE", "OSS", "COS"}
Scheme == [COS |-> "cos:", FILE |-> "file:", OSS |-> "oss:"]

VARIABLES
  dest,       \* the destination set by the callers
  dest_ret,   \* return code of the last set() of dest
  copy,       \* a destination deep-copied from dest
  copy_ret,   \* return code of the last copy of dest
  dest_tail,  \* the bytes of dest's endpoint_ after its terminating NUL
  copy_tail,  \* the same bytes of copy's endpoint_
  op          \* the last operation, for the action properties

vars == <<dest, dest_ret, copy, copy_ret, dest_tail, copy_tail, op>>

\* alloc_and_init() placement-news the storage info, whose constructor
\* writes only endpoint_[0]: the rest of the array holds whatever the
\* arena handed out.  Two contents stand for all of them; "none" is the
\* tail of a destination with no storage info.
Garbage == {"x0", "x1"}

-----------------------------------------------------------------------------
(* ObBackupStorageInfo                                                     *)

\* The constructor and reset(): type MAX (not is_valid()), empty fields.
NoInfo == [access_id |-> <<>>, access_key |-> <<>>, device_type |-> "MAX",
           endpoint |-> <<>>, extension |-> <<>>]

\* is_valid(): a device type below OB_STORAGE_MAX_TYPE.
StorageInfoValid(i) == i.device_type \in Types

\* Mutant: the arrays copied as strings, so the target keeps its own tail.
StorageInfoAssignStrcpy(src, src_tail, dst_tail) == [info |-> src, tail |-> dst_tail]

\* assign(): device_type_ and a MEMCPY of every whole array, so the bytes
\* after the endpoint's NUL are copied as well.
StorageInfoAssign(src, src_tail, dst_tail) == [info |-> src, tail |-> src_tail]

\* strtok_r(s, sep): the maximal runs between separators, empty runs dropped.
RECURSIVE Tokens(_, _, _)
Tokens(s, sep, cur) ==
  CASE s = <<>>                    -> IF cur = <<>> THEN <<>> ELSE <<cur>>
    [] Head(s) = sep /\ cur = <<>> -> Tokens(Tail(s), sep, <<>>)
    [] Head(s) = sep               -> <<cur>> \o Tokens(Tail(s), sep, <<>>)
    [] OTHER                       -> Tokens(Tail(s), sep, Append(cur, Head(s)))
StrTok(s, sep) == Tokens(s, sep, <<>>)

\* strncmp(KEY, token, strlen(KEY)) == 0
HasKey(tok, key) == Head(tok) = key

\* set_storage_info_field_(): prints the token at strlen(field), so a
\* second token of the same key is appended to the first.
AppendField(info, f, tok) == [info EXCEPT ![f] = @ \o tok]

\* One iteration of the strtok loop of set(device_type, storage_info).
ParseToken(type, st, tok) ==
  CASE HasKey(tok, "host=")      -> [st EXCEPT !.info = AppendField(@, "endpoint", tok)]
    [] HasKey(tok, "access_id=") -> [st EXCEPT !.info = AppendField(@, "access_id", tok)]
    [] HasKey(tok, "access_key=") ->
         IF st.info.access_key # <<>>                     \* set_access_key_()
         THEN [st EXCEPT !.ret = "INVALID_ARGUMENT"]
         ELSE [st EXCEPT !.info = AppendField(@, "access_key", tok)]
    [] type = "COS" /\ HasKey(tok, "appid=") ->
         [st EXCEPT !.has_appid = TRUE, !.info = AppendField(@, "extension", tok)]
    [] type = "OSS" /\ HasKey(tok, "delete_mode=") ->
         IF Tail(tok) \in {<<"delete">>, <<"tagging">>}  \* check_delete_mode_()
         THEN [st EXCEPT !.info = AppendField(@, "extension", tok)]
         ELSE [st EXCEPT !.ret = "INVALID_ARGUMENT"]
    [] OTHER -> st                                        \* unknown: ignored

\* ObBackupStorageInfo::set(device_type, storage_info) on a reset object:
\* device_type_ is written first, then the tokens are parsed until one
\* fails, then the per-type post-checks.  The fields keep what was parsed.
StorageInfoSet(type, s) ==
  LET typed == [NoInfo EXCEPT !.device_type = type]
      Step(st, tok) == IF st.ret # "SUCCESS" THEN st ELSE ParseToken(type, st, tok)
      st == FoldLeft(Step, [has_appid |-> FALSE, info |-> typed, ret |-> "SUCCESS"],
                     StrTok(s, "&"))
      i  == st.info
  IN CASE s = <<>> ->
            [info |-> typed, ret |-> IF type = "FILE" THEN "SUCCESS" ELSE "INVALID_BACKUP_DEST"]
       [] st.ret # "SUCCESS" -> [info |-> i, ret |-> st.ret]
       [] type = "OSS" /\ <<>> \in {i.endpoint, i.access_id, i.access_key} ->
            [info |-> i, ret |-> "INVALID_BACKUP_DEST"]
       [] type = "COS" /\ ~st.has_appid -> [info |-> i, ret |-> "INVALID_BACKUP_DEST"]
       [] OTHER -> [info |-> i, ret |-> "SUCCESS"]

\* parse_authorization_(): only access_id= and access_key= tokens, each
\* appended to its field; any other token is an invalid argument.
ParseAuthorization(info, auth) ==
  LET Step(st, tok) ==
        CASE st.ret # "SUCCESS"         -> st
          [] HasKey(tok, "access_id=")  -> [st EXCEPT !.info = AppendField(@, "access_id", tok)]
          [] HasKey(tok, "access_key=") -> [st EXCEPT !.info = AppendField(@, "access_key", tok)]
          [] OTHER                      -> [st EXCEPT !.ret = "INVALID_ARGUMENT"]
  IN FoldLeft(Step, [info |-> info, ret |-> "SUCCESS"], StrTok(auth, "&"))

\* ObBackupStorageInfo::set(device_type, endpoint, authorization,
\* extension) on a reset object: the parts are printed as given, then the
\* credentials are checked against the device type.
StorageInfoSetParts(type, ep, auth, ext) ==
  LET typed == [NoInfo EXCEPT !.device_type = type, !.endpoint = ep]
      a     == IF auth = <<>> THEN [info |-> typed, ret |-> "SUCCESS"]
               ELSE ParseAuthorization(typed, auth)
      i     == IF a.ret = "SUCCESS" THEN [a.info EXCEPT !.extension = ext] ELSE a.info
      creds == {i.endpoint, i.access_id, i.access_key}
  IN CASE a.ret # "SUCCESS" -> a
       [] type # "FILE" /\ <<>> \in creds -> [info |-> i, ret |-> "INVALID_BACKUP_DEST"]
       [] type = "FILE" /\ creds # {<<>>} -> [info |-> i, ret |-> "INVALID_BACKUP_DEST"]
       [] OTHER -> [info |-> i, ret |-> "SUCCESS"]

\* Mutant: the "&extension" suffix left out of the formatted string.
StorageInfoStrNoExtension(i) ==
  IF i.device_type = "MAX" THEN [ret |-> "INVALID_ARGUMENT", str |-> <<>>]
  ELSE [ret |-> "SUCCESS",
        str |-> IF i.device_type = "FILE" THEN <<>>
                ELSE i.endpoint \o <<"&">> \o i.access_id \o <<"&">> \o i.access_key]

\* get_storage_info_str(): "endpoint&access_id&access_key" except for
\* FILE, then "&extension" when there is one.
StorageInfoStr(i) ==
  IF i.device_type = "MAX" THEN [ret |-> "INVALID_ARGUMENT", str |-> <<>>]
  ELSE LET cred == IF i.device_type = "FILE" THEN <<>>
                   ELSE i.endpoint \o <<"&">> \o i.access_id \o <<"&">> \o i.access_key
       IN [ret |-> "SUCCESS",
           str |-> cred \o (IF i.extension = <<>> THEN <<>> ELSE <<"&">> \o i.extension)]

-----------------------------------------------------------------------------
(* ObBackupDest                                                            *)

\* reset() and the constructor: both pointers NULL, so not is_valid().
NullDest == [root_path |-> <<>>, storage_info |-> NoInfo, valid |-> FALSE]

\* alloc_and_init(): the pointers are set, so the destination is valid
\* from here on whatever the later steps return.
Allocated == [root_path |-> <<>>, storage_info |-> NoInfo, valid |-> TRUE]

\* get_storage_type_from_path(): the device type named by the scheme.
PathTypes(p) == {t \in Types : Len(p) >= 3 /\ SubSeq(p, 1, 3) = <<Scheme[t], "/", "/">>}
StorageTypeFromPath(p) == CHOOSE t \in PathTypes(p) : TRUE

\* share::trim_right_backslash(): pos steps back twice for every '/' it
\* clears, so the character before each cleared '/' is never examined.
\* Kept(p, k) is the length left when position k is examined next.
RECURSIVE Kept(_, _)
Kept(p, k) == IF k >= 1 /\ p[k] = "/" THEN Kept(p, k - 2) ELSE k + 1
TrimRightBackslash(p) ==
  IF p # <<>> /\ Last(p) = "/" THEN SubSeq(p, 1, Kept(p, Len(p) - 2)) ELSE p

\* root_path_trim_(): every trailing '/' cleared.
RECURSIVE RootPathTrim(_)
RootPathTrim(p) == IF p # <<>> /\ Last(p) = "/" THEN RootPathTrim(Front(p)) ELSE p

\* Completes a set(): root_path_trim_() only when everything succeeded.
Finish(root, si) ==
  [dest |-> [root_path    |-> IF si.ret = "SUCCESS" THEN RootPathTrim(root) ELSE root,
             storage_info |-> si.info,
             valid        |-> TRUE],
   ret  |-> si.ret]

\* set(const char *backup_dest) with parse_backup_dest_str_(): the root
\* path is everything before the first '?', the storage info everything
\* after it.
SetDestStr(s) ==
  IF PathTypes(s) = {} THEN [dest |-> Allocated, ret |-> "INVALID_BACKUP_DEST"]
  ELSE LET q    == SelectInSeq(s, LAMBDA a : a = "?")
           root == IF q = 0 THEN s ELSE SubSeq(s, 1, q - 1)
           rest == IF q = 0 THEN <<>> ELSE SubSeq(s, q + 1, Len(s))
       IN Finish(root, StorageInfoSet(StorageTypeFromPath(s), rest))

\* set(root_path, storage_info).
SetRootInfo(root, info) ==
  IF PathTypes(root) = {} THEN [dest |-> Allocated, ret |-> "INVALID_BACKUP_DEST"]
  ELSE Finish(root, StorageInfoSet(StorageTypeFromPath(root), info))

\* set(path, endpoint, authorization, extension).
SetParts(a) ==
  IF PathTypes(a.path) = {} THEN [dest |-> Allocated, ret |-> "INVALID_BACKUP_DEST"]
  ELSE Finish(a.path, StorageInfoSetParts(StorageTypeFromPath(a.path),
                                          a.endpoint, a.authorization, a.extension))

\* set(root_path, const ObBackupStorageInfo *): reset(), a NULL root or an
\* invalid info rejected before anything is allocated, then the root
\* printed into the zeroed buffer, the info assigned over a freshly
\* constructed one whose tail is fresh, and the root trimmed.  The root's
\* scheme is not checked against the device type.
SetRootStorageInfo(src, src_tail, fresh) ==
  IF ~src.valid \/ ~StorageInfoValid(src.storage_info)
  THEN [dest |-> NullDest, ret |-> "INVALID_BACKUP_DEST", tail |-> "none"]
  ELSE LET a == StorageInfoAssign(src.storage_info, src_tail, fresh)
       IN [dest |-> [root_path    |-> RootPathTrim(src.root_path),
                     storage_info |-> a.info,
                     valid        |-> TRUE],
           ret  |-> "SUCCESS",
           tail |-> a.tail]

\* is_backup_path_equal(): INVALID_ARGUMENT unless both are valid, else a
\* MEMCMP of the whole zero-padded root buffers and of the whole endpoint
\* arrays, tails included.
IsBackupPathEqual(a, a_tail, b, b_tail) ==
  IF ~a.valid \/ ~b.valid THEN [equal |-> TRUE, ret |-> "INVALID_ARGUMENT"]
  ELSE [equal |-> a.root_path = b.root_path
                  /\ a.storage_info.endpoint = b.storage_info.endpoint
                  /\ a_tail = b_tail,
        ret   |-> "SUCCESS"]

\* get_backup_dest_str(): the root path, then "?" and the storage-info
\* string when that is not empty.
BackupDestStr(d) ==
  IF ~d.valid THEN [ret |-> "NOT_INIT", str |-> <<>>]
  ELSE LET si == StorageInfoStr(d.storage_info)
       IN [ret |-> si.ret,
           str |-> d.root_path \o (IF si.str = <<>> THEN <<>> ELSE <<"?">> \o si.str)]

\* ObBackupDest::operator== with ObBackupStorageInfo::operator==: both
\* NULL, or equal root paths and equal storage-info fields.
DestEqual(a, b) ==
  /\ a.valid = b.valid
  /\ a.valid => a.root_path = b.root_path /\ a.storage_info = b.storage_info

-----------------------------------------------------------------------------
Init ==
  /\ dest = NullDest
  /\ copy = NullDest
  /\ dest_ret = "SUCCESS"
  /\ copy_ret = "SUCCESS"
  /\ dest_tail = "none"
  /\ copy_tail = "none"
  /\ op = "none"

\* The tail of a destination a set() left with storage info.
FreshTail(d, t) == IF d.valid THEN t ELSE "none"

SetDest(r) ==
  /\ dest_ret' = r.ret
  /\ dest' = r.dest
  /\ \E t \in Garbage : dest_tail' = FreshTail(r.dest, t)
  /\ op' = "set"
  /\ UNCHANGED <<copy, copy_ret, copy_tail>>

\* deep_copy(): reset(), format the source, set the copy from the string.
DeepCopy ==
  LET s == BackupDestStr(dest)
      r == IF s.ret = "SUCCESS" THEN SetDestStr(s.str) ELSE [dest |-> NullDest, ret |-> s.ret]
  IN /\ copy_ret' = r.ret
     /\ copy' = r.dest
     /\ \E t \in Garbage : copy_tail' = FreshTail(r.dest, t)
     /\ op' = "deep_copy"
     /\ UNCHANGED <<dest, dest_ret, dest_tail>>

\* copy.set(dest.get_root_path(), dest.get_storage_info()).
SetFromRootAndInfo ==
  \E fresh \in Garbage :
    LET r == SetRootStorageInfo(dest, dest_tail, fresh)
    IN /\ copy_ret' = r.ret
       /\ copy' = r.dest
       /\ copy_tail' = r.tail
       /\ op' = "set_info"
       /\ UNCHANGED <<dest, dest_ret, dest_tail>>

DestStrs == {IF i = <<>> THEN r ELSE r \o <<"?">> \o i : <<r, i>> \in Requests}

Next ==
  \/ \E s \in DestStrs : SetDest(SetDestStr(s))
  \/ \E <<r, i>> \in Requests : SetDest(SetRootInfo(r, i))
  \/ \E a \in FourArgs : SetDest(SetParts(a))
  \/ DeepCopy
  \/ SetFromRootAndInfo

Spec == Init /\ [][Next]_vars

-----------------------------------------------------------------------------
(* Properties.                                                             *)

\* deep_copy() of a destination that set() accepted succeeds and yields a
\* destination operator== calls equal: get_backup_dest_str() writes back
\* everything set() parsed, and set() parses it to the same fields.
DeepCopyPreservesDest ==
  [][(op' = "deep_copy" /\ dest.valid /\ dest_ret = "SUCCESS") =>
       (copy_ret' = "SUCCESS" /\ DestEqual(copy', dest))]_vars

\* A copy made with set(root_path, storage_info) from a destination set()
\* accepted succeeds, is operator== equal to it, and is_backup_path_equal()
\* finds the two equal: assign() copies the endpoint's bytes past its NUL,
\* which is_backup_path_equal() compares although nobody wrote them.
InfoCopyPreservesDest ==
  [][(op' = "set_info" /\ dest.valid /\ dest_ret = "SUCCESS") =>
       /\ copy_ret' = "SUCCESS"
       /\ DestEqual(copy', dest)
       /\ IsBackupPathEqual(copy', copy_tail', dest, dest_tail)
            = [equal |-> TRUE, ret |-> "SUCCESS"]]_vars

\* Every destination a set() or deep_copy() accepted has its trailing
\* slashes stripped, whichever of the four set() forms produced it.
AcceptedRootTrimmed ==
  /\ dest.valid /\ dest_ret = "SUCCESS" =>
       dest.root_path = <<>> \/ Last(dest.root_path) # "/"
  /\ copy.valid /\ copy_ret = "SUCCESS" =>
       copy.root_path = <<>> \/ Last(copy.root_path) # "/"
=============================================================================
