---------------------------- MODULE PathListCodec ----------------------------
(***************************************************************************)
(* The plain-text codecs of ObPhysicalRestoreBackupDestList                *)
(* (src/share/backup/ob_backup_struct.cpp, lines 36-620).                  *)
(*                                                                         *)
(* A restore job fills one list object with set(): backup-set paths with  *)
(* their parallel set descriptors, piece paths and log paths.  The        *)
(* get_*_format_str() calls render each list into the text persisted in  *)
(* the restore job's catalog row (row); the *_assign_with_format_str()    *)
(* calls parse such text back into a list, and are the operators          *)
(* PathListAssign and DescListAssign below.                               *)
(*                                                                         *)
(* Strings are sequences of one-character strings; a path is a short     *)
(* string over a small alphabet that contains the separator ",".          *)
(* The hex codecs get_*_hex_str() and *_assign_with_hex_str() size their *)
(* buffers here and call the library's serialize, hex_print, hex_to_cstr  *)
(* and deserialize, which are not in this repository: they are modelled  *)
(* after spec.md 4.2 (a count, then each path as its length and bytes,   *)
(* below 128 so that every varint is one byte; two hex digits per byte). *)
(***************************************************************************)
EXTENDS Integers, Sequences, SequencesExt

CONSTANTS
  Paths,       \* path strings set() may receive
  SetIds,      \* backup_set_id_ values of the descriptors
  DescTypes,   \* backup types of the descriptors, among "EMPTY", "FULL", "INC"
  MaxItems,    \* bound on the number of backup sets one object accumulates
  MaxText      \* OB_MAX_LONGTEXT_LENGTH, scaled down

ASSUME SetIds \subseteq 1..99 /\ MaxItems \in Nat /\ MaxText \in Nat

Digit == [i \in 0..9 |-> <<"0","1","2","3","4","5","6","7","8","9">>[i + 1]]
DigitChars == {Digit[i] : i \in 0..9}
DigitValue(c) == CHOOSE i \in 0..9 : Digit[i] = c

Descs == [backup_set_id : SetIds, backup_type : DescTypes]
Infos == [backup_set_path : Paths, backup_set_desc : Descs]

Kinds == {"set", "desc", "piece", "log"}
HexKinds == {"set", "piece", "log"}
NoText == "none"

\* The character codes of the alphabet paths and hex text are made of.
CharCode ==
  [c \in {",", "/", ":", "a", "b", "c", "d", "e"} |->
     CASE c = "," -> 44 [] c = "/" -> 47 [] c = ":" -> 58 [] c = "a" -> 97
       [] c = "b" -> 98 [] c = "c" -> 99 [] c = "d" -> 100 [] c = "e" -> 101]
HexDigit == <<"0","1","2","3","4","5","6","7","8","9","A","B","C","D","E","F">>

VARIABLES
  backup_set_path_list,    \* backup_set_path_list_
  backup_set_desc_list,    \* backup_set_desc_list_
  backup_piece_path_list,  \* backup_piece_path_list_
  log_path_list,           \* log_path_list_
  row,                     \* Kinds -> the text last formatted for that list
  ret,                     \* return code of the last call
  op                       \* the last call

vars == <<backup_set_path_list, backup_set_desc_list, backup_piece_path_list,
          log_path_list, row, ret, op>>

-----------------------------------------------------------------------------
(* Conversions.                                                            *)

\* "%ld": the decimal digits of a positive id.
RECURSIVE NumStr(_)
NumStr(n) == IF n < 10 THEN <<Digit[n]>> ELSE NumStr(n \div 10) \o <<Digit[n % 10]>>

\* ObBackupType::get_backup_type_str(): backup_func_type_strs, or
\* "UNKNOWN" for MAX.
TypeStr(t) == CASE t = "EMPTY" -> <<>>
                [] t = "FULL"  -> <<"F", "U", "L", "L">>
                [] t = "INC"   -> <<"I", "N", "C">>
                [] OTHER       -> <<"U", "N", "K", "N", "O", "W", "N">>

\* ObBackupType::set_backup_type(): the type whose string equals buf.
SetBackupType(buf) ==
  IF \E t \in {"EMPTY", "FULL", "INC"} : TypeStr(t) = buf
  THEN [ret |-> "SUCCESS", type |-> CHOOSE t \in {"EMPTY", "FULL", "INC"} : TypeStr(t) = buf]
  ELSE [ret |-> "ENTRY_NOT_EXIST", type |-> "MAX"]

\* STRTOK_R(str, ",", &saveptr) until NULL: the non-empty runs between commas.
RECURSIVE Tokens(_, _)
Tokens(s, cur) ==
  CASE s = <<>>                    -> IF cur = <<>> THEN <<>> ELSE <<cur>>
    [] Head(s) = "," /\ cur = <<>> -> Tokens(Tail(s), <<>>)
    [] Head(s) = ","               -> <<cur>> \o Tokens(Tail(s), <<>>)
    [] OTHER                       -> Tokens(Tail(s), Append(cur, Head(s)))
StrTok(s) == Tokens(s, <<>>)

RECURSIVE DigitRun(_)
DigitRun(s) == IF s # <<>> /\ Head(s) \in DigitChars THEN 1 + DigitRun(Tail(s)) ELSE 0

\* sscanf(token, "%ld:%5s", &id, type_buf): both fields, or fewer than 2.
ScanDescNarrow(tok) ==
  LET k    == DigitRun(tok)
      rest == SubSeq(tok, k + 2, Len(tok))
  IN IF k = 0 \/ Len(tok) < k + 2 \/ tok[k + 1] # ":"
     THEN [n |-> 1]
     ELSE [n |-> 2,
           id |-> FoldLeft(LAMBDA a, c : 10 * a + DigitValue(c), 0, SubSeq(tok, 1, k)),
           type_buf |-> SubSeq(rest, 1, IF Len(rest) < 3 THEN Len(rest) ELSE 3)]
ScanDesc(tok) ==
  LET k    == DigitRun(tok)
      rest == SubSeq(tok, k + 2, Len(tok))
  IN IF k = 0 \/ Len(tok) < k + 2 \/ tok[k + 1] # ":"
     THEN [n |-> 1]
     ELSE [n |-> 2,
           id |-> FoldLeft(LAMBDA a, c : 10 * a + DigitValue(c), 0, SubSeq(tok, 1, k)),
           type_buf |-> SubSeq(rest, 1, IF Len(rest) < 5 THEN Len(rest) ELSE 5)]

-----------------------------------------------------------------------------
(* The formatters, get_*_format_str().                                     *)

\* get_backup_set_list_format_str_len() and its two siblings.
PathListFormatStrLen(l) ==
  LET f[i \in 0..Len(l)] == IF i = 0 THEN 0
                            ELSE f[i - 1] + Len(l[i]) + (IF i = 1 THEN 0 ELSE 1)
  IN f[Len(l)]

\* The "%s%s" loop: a comma before every path but the first.
FormatPathListNoComma(l) == FlattenSeq(l)
FormatPathList(l) ==
  FlattenSeq([i \in 1..Len(l) |-> (IF i = 1 THEN <<>> ELSE <<",">>) \o l[i]])

\* The "%ld:%s%s" loop: "," after every descriptor but the last, which gets
\* "\0" and so nothing.
DescText(d) == NumStr(d.backup_set_id) \o <<":">> \o TypeStr(d.backup_type)
FormatDescList(l) ==
  FlattenSeq([i \in 1..Len(l) |-> DescText(l[i]) \o (IF i = Len(l) THEN <<>> ELSE <<",">>)])

\* databuff_printf() into a buffer of buf_len bytes: the text and its NUL
\* must fit, else OB_SIZE_OVERFLOW.
Printed(text, buf_len) ==
  IF Len(text) < buf_len THEN [ret |-> "SUCCESS", str |-> text]
  ELSE [ret |-> "SIZE_OVERFLOW", str |-> <<>>]

\* get_backup_set_list_format_str(), get_backup_piece_list_format_str(),
\* get_log_path_list_format_str().
GetPathListFormatStr(l) ==
  LET buf_len == PathListFormatStrLen(l) + 1
  IN IF buf_len > MaxText + 1 THEN [ret |-> "SIZE_OVERFLOW", str |-> <<>>]
     ELSE Printed(FormatPathList(l), buf_len)

\* get_backup_set_desc_list_format_str(): the buffer is sized from the
\* backup-set PATH list.
DescListBufLen(paths, descs) == PathListFormatStrLen(paths) + 1
GetDescListFormatStr(paths, descs) ==
  LET buf_len == DescListBufLen(paths, descs)
  IN CASE buf_len > MaxText + 1 -> [ret |-> "SIZE_OVERFLOW", str |-> <<>>]
       [] Len(descs) = 0        -> [ret |-> "SUCCESS", str |-> <<>>]
       [] OTHER                 -> Printed(FormatDescList(descs), buf_len)

-----------------------------------------------------------------------------
(* The parsers, *_assign_with_format_str(): they push onto the list they   *)
(* are called on.                                                          *)

\* backup_set_list_, backup_piece_list_, log_path_list_assign_with_format_str().
PathListAssign(list, s) == [ret |-> "SUCCESS", list |-> list \o StrTok(s)]

\* backup_set_desc_list_assign_with_format_str(): the descriptors before
\* the first bad token stay pushed.
RECURSIVE DescTokensAssign(_, _)
DescTokensAssign(list, toks) ==
  IF toks = <<>> THEN [ret |-> "SUCCESS", list |-> list]
  ELSE LET scan == ScanDesc(Head(toks))
           type == IF scan.n = 2 THEN SetBackupType(scan.type_buf) ELSE NoText
       IN CASE scan.n # 2 -> [ret |-> "INVALID_ARGUMENT", list |-> list]
            [] type.ret # "SUCCESS" -> [ret |-> type.ret, list |-> list]
            [] OTHER -> DescTokensAssign(
                          Append(list, [backup_set_id |-> scan.id, backup_type |-> type.type]),
                          Tail(toks))
DescListAssign(list, s) == DescTokensAssign(list, StrTok(s))

-----------------------------------------------------------------------------
(* The hex codecs.                                                         *)

\* ObSArray<path>::serialize(): the count, then each path's length and
\* bytes (spec.md 4.2).
Serialize(l) ==
  <<Len(l)>> \o FlattenSeq([i \in 1 .. Len(l) |->
                   <<Len(l[i])>> \o [j \in 1 .. Len(l[i]) |-> CharCode[l[i][j]]]])

\* hex_print(in, len, buf, buf_len, pos): two hex digits per byte, an
\* overflow when they do not fit in buf_len.
HexPrint(bytes, buf_len) ==
  IF 2 * Len(bytes) > buf_len THEN [ret |-> "SIZE_OVERFLOW", str |-> <<>>]
  ELSE [ret |-> "SUCCESS",
        str |-> FlattenSeq([i \in 1 .. Len(bytes) |->
                  <<HexDigit[bytes[i] \div 16 + 1], HexDigit[(bytes[i] % 16) + 1]>>])]

\* hex_to_cstr(in, len, buf, buf_len): the bytes the digit pairs stand
\* for, NUL-terminated, so buf_len must exceed their number.
HexValue(c) == CHOOSE i \in 0 .. 15 : HexDigit[i + 1] = c
HexToCStr(text, buf_len) ==
  IF Len(text) % 2 # 0 \/ Len(text) \div 2 >= buf_len
  THEN [ret |-> "INVALID_ARGUMENT", bytes |-> <<>>]
  ELSE [ret |-> "SUCCESS",
        bytes |-> [i \in 1 .. Len(text) \div 2 |->
                     16 * HexValue(text[2 * i - 1]) + HexValue(text[2 * i])]]

\* ObSArray<path>::deserialize(buf, size, pos): the array is reset, then
\* the count and the paths are read; reading past size fails.
CodeChar(b) == CHOOSE c \in DOMAIN CharCode : CharCode[c] = b
RECURSIVE DecodePaths(_, _, _)
DecodePaths(bytes, pos, n) ==
  IF n = 0 THEN [ok |-> TRUE, list |-> <<>>, pos |-> pos]
  ELSE IF pos + 1 > Len(bytes) \/ pos + 1 + bytes[pos + 1] > Len(bytes)
       THEN [ok |-> FALSE, list |-> <<>>, pos |-> pos]
  ELSE LET k    == bytes[pos + 1]
           path == [j \in 1 .. k |-> CodeChar(bytes[pos + 1 + j])]
           rest == DecodePaths(bytes, pos + 1 + k, n - 1)
       IN [ok |-> rest.ok, list |-> <<path>> \o rest.list, pos |-> rest.pos]
Deserialize(bytes) ==
  IF bytes = <<>> THEN [ok |-> FALSE, list |-> <<>>, pos |-> 0]
  ELSE DecodePaths(bytes, 1, bytes[1])

\* get_backup_set_list_hex_str() with the hex buffer as large as the
\* serialized bytes, not twice as large.
GetListHexStrHalfBuf(l) ==
  LET ser == Serialize(l)
  IN IF Len(ser) > MaxText \div 2 THEN [ret |-> "SIZE_OVERFLOW", str |-> <<>>]
     ELSE HexPrint(ser, Len(ser))

\* get_backup_set_list_hex_str(), get_backup_piece_list_hex_str(),
\* get_log_path_list_hex_str(): serialize, refuse more than half the
\* column, hex_print into 2 * serialize_size bytes.
GetListHexStr(l) ==
  LET ser == Serialize(l)
  IN IF Len(ser) > MaxText \div 2 THEN [ret |-> "SIZE_OVERFLOW", str |-> <<>>]
     ELSE HexPrint(ser, 2 * Len(ser))

\* backup_set_list_assign_with_hex_str() with a buffer of length / 2
\* bytes, no room for hex_to_cstr()'s NUL.
ListAssignWithHexStrNoNul(list, s) ==
  LET size == Len(s) \div 2
      c    == HexToCStr(s, size)
      d    == Deserialize(c.bytes)
  IN CASE Len(s) <= 0       -> [ret |-> "SUCCESS", list |-> list]
       [] c.ret # "SUCCESS" -> [ret |-> c.ret, list |-> list]
       [] ~d.ok             -> [ret |-> "DESERIALIZE_ERROR", list |-> <<>>]
       [] d.pos > size      -> [ret |-> "SIZE_OVERFLOW", list |-> d.list]
       [] OTHER             -> [ret |-> "SUCCESS", list |-> d.list]

\* backup_set_list_, backup_piece_list_, log_path_list_assign_with_hex_str():
\* an empty string is skipped; otherwise hex_to_cstr() into length / 2 + 1
\* bytes, deserialize, and a position past the buffer is an overflow.
ListAssignWithHexStr(list, s) ==
  LET size == Len(s) \div 2 + 1
      c    == HexToCStr(s, size)
      d    == Deserialize(c.bytes)
  IN CASE Len(s) <= 0       -> [ret |-> "SUCCESS", list |-> list]
       [] c.ret # "SUCCESS" -> [ret |-> c.ret, list |-> list]
       [] ~d.ok             -> [ret |-> "DESERIALIZE_ERROR", list |-> <<>>]
       [] d.pos > size      -> [ret |-> "SIZE_OVERFLOW", list |-> d.list]
       [] OTHER             -> [ret |-> "SUCCESS", list |-> d.list]

-----------------------------------------------------------------------------
(* The object's operations.                                                *)

Init ==
  /\ backup_set_path_list = <<>>
  /\ backup_set_desc_list = <<>>
  /\ backup_piece_path_list = <<>>
  /\ log_path_list = <<>>
  /\ row = [k \in Kinds |-> <<>>]
  /\ ret = "SUCCESS"
  /\ op = "none"

SetNoDesc(infos, pieces, logs) ==
  /\ Len(backup_set_path_list) + Len(infos) <= MaxItems
  /\ backup_piece_path_list' = pieces
  /\ log_path_list' = logs
  /\ backup_set_path_list' = backup_set_path_list \o [i \in 1..Len(infos) |-> infos[i].backup_set_path]
  /\ backup_set_desc_list' = backup_set_desc_list
  /\ ret' = "SUCCESS"
  /\ op' = "set"
  /\ UNCHANGED row

\* set(): the piece and log lists are replaced, the backup sets are pushed
\* after the ones the object already holds.
Set(infos, pieces, logs) ==
  /\ Len(backup_set_path_list) + Len(infos) <= MaxItems
  /\ backup_piece_path_list' = pieces
  /\ log_path_list' = logs
  /\ backup_set_path_list' = backup_set_path_list \o [i \in 1..Len(infos) |-> infos[i].backup_set_path]
  /\ backup_set_desc_list' = backup_set_desc_list \o [i \in 1..Len(infos) |-> infos[i].backup_set_desc]
  /\ ret' = "SUCCESS"
  /\ op' = "set"
  /\ UNCHANGED row

\* One get_*_format_str() call; its text reaches the row only on success.
Format(kind, r) ==
  /\ ret' = r.ret
  /\ row' = IF r.ret = "SUCCESS" THEN [row EXCEPT ![kind] = r.str] ELSE row
  /\ op' = kind
  /\ UNCHANGED <<backup_set_path_list, backup_set_desc_list, backup_piece_path_list, log_path_list>>

GetBackupSetListFormatStr == Format("set", GetPathListFormatStr(backup_set_path_list))
GetBackupSetDescListFormatStr ==
  Format("desc", GetDescListFormatStr(backup_set_path_list, backup_set_desc_list))
GetBackupPieceListFormatStr == Format("piece", GetPathListFormatStr(backup_piece_path_list))
GetLogPathListFormatStr == Format("log", GetPathListFormatStr(log_path_list))

\* get_backup_set_brief_info_list(): the paths and descriptors zipped by
\* index, refused when the two lists differ in length.
GetBackupSetBriefInfoList ==
  /\ ret' = IF Len(backup_set_desc_list) # Len(backup_set_path_list)
            THEN "ERR_UNEXPECTED" ELSE "SUCCESS"
  /\ op' = "brief"
  /\ UNCHANGED <<backup_set_path_list, backup_set_desc_list, backup_piece_path_list,
                 log_path_list, row>>

\* The member list a codec of the given kind reads or writes.
PathList(kind) == CASE kind = "set"   -> backup_set_path_list
                    [] kind = "piece" -> backup_piece_path_list
                    [] kind = "log"   -> log_path_list

\* One get_*_hex_str() call; the text it returns is GetListHexStr() of the
\* list, which the properties recompute rather than keep.
HexFormat(kind) ==
  /\ ret' = GetListHexStr(PathList(kind)).ret
  /\ op' = "hex_" \o kind
  /\ UNCHANGED <<backup_set_path_list, backup_set_desc_list, backup_piece_path_list,
                 log_path_list, row>>

Next ==
  \/ \E infos \in BoundedSeq(Infos, 1), pieces \in BoundedSeq(Paths, 1),
        logs \in BoundedSeq(Paths, 1) : Set(infos, pieces, logs)
  \/ GetBackupSetListFormatStr
  \/ GetBackupSetDescListFormatStr
  \/ GetBackupPieceListFormatStr
  \/ GetLogPathListFormatStr
  \/ GetBackupSetBriefInfoList
  \/ \E k \in HexKinds : HexFormat(k)

Spec == Init /\ [][Next]_vars

-----------------------------------------------------------------------------
(* Properties.                                                             *)

\* Type invariant; set() keeps the path and descriptor lists parallel, so
\* get_backup_set_brief_info_list() never finds them mismatched.
TypeOK ==
  /\ backup_set_path_list \in Seq(Paths)
  /\ backup_set_desc_list \in Seq(Descs)
  /\ Len(backup_set_path_list) = Len(backup_set_desc_list)
  /\ backup_piece_path_list \in Seq(Paths) /\ log_path_list \in Seq(Paths)
  /\ ret \in {"SUCCESS", "SIZE_OVERFLOW"}
  /\ row \in [Kinds -> Seq(STRING)]

\* spec.md 8.1: a path list formatted into the catalog row is read back as
\* the same list: every text a get_*_format_str() call writes, parsed by
\* *_assign_with_format_str() into an empty list, gives the list it was
\* formatted from.
PathListRoundTrip ==
  [][\A k \in {"set", "piece", "log"} :
       row'[k] # row[k] => PathListAssign(<<>>, row'[k]).list = PathList(k)]_vars

\* spec.md 8.1 and 8.8: a descriptor list formatted into the row parses
\* back, without error, into the same descriptors.
DescListRoundTrip ==
  [][row'["desc"] # row["desc"] =>
       DescListAssign(<<>>, row'["desc"]) = [ret |-> "SUCCESS", list |-> backup_set_desc_list]]_vars

\* spec.md 4.2: a list fails to format with SIZE_OVERFLOW only when its
\* text would exceed the column's bound.  For the descriptor list of
\* backup sets given to set(), get_backup_set_desc_list_format_str()
\* succeeds whenever its text fits.
DescListFormatsWhenItFits ==
  [][(op' = "desc" /\ Len(FormatDescList(backup_set_desc_list)) <= MaxText) =>
       ret' = "SUCCESS"]_vars

\* spec.md 8.1 and 4.2: a path list whose serialized size fits half the
\* column is written by get_*_hex_str() without error, and the hex text,
\* read back by *_assign_with_hex_str() into an empty list, gives the
\* same list without error.
HexListRoundTrip ==
  [][\A k \in HexKinds :
       (op' = "hex_" \o k /\ Len(Serialize(PathList(k))) <= MaxText \div 2) =>
         /\ ret' = "SUCCESS"
         /\ ListAssignWithHexStr(<<>>, GetListHexStr(PathList(k)).str) = [ret |-> "SUCCESS", list |-> PathList(k)]]_vars
=============================================================================
