--------------------------- MODULE BackupFileStatus ---------------------------
(***************************************************************************)
(* The file status of backup sets and backup pieces, ObBackupFileStatus in *)
(* src/share/backup/ob_backup_struct.cpp.                                  *)
(*                                                                         *)
(* Every change of a file status in the catalog is gated by               *)
(* check_can_change_status(src, dest): the row takes dest only when the   *)
(* check returns OB_SUCCESS.  Files is a small set of such rows (backup   *)
(* pieces or their copies); each step is one requested change of one row *)
(* to any status, MAX included.                                           *)
(*                                                                         *)
(* Two history variables record what a row has been through, so that     *)
(* properties can speak about a row's past: broken (it has been BROKEN)   *)
(* and incomplete (it became INCOMPLETE and has not been copied since).   *)
(*                                                                         *)
(* Each row carries the ObBackupPieceInfoKey of its piece (any key built  *)
(* from KeyValues, chosen in Init); the catalog's callers sort and search *)
(* rows by the key's operator<.                                           *)
(***************************************************************************)
EXTENDS Naturals, FiniteSets, Sequences

CONSTANTS
  Files,      \* the catalog rows whose file status changes
  KeyValues   \* field of ObBackupPieceInfoKey -> the values it ranges over

\* The fields of ObBackupPieceInfoKey in the order operator< weighs them.
KeyFields == <<"incarnation", "tenant_id", "round_id", "backup_piece_id", "copy_id">>
PieceKeys == [incarnation : KeyValues.incarnation, tenant_id : KeyValues.tenant_id,
              round_id : KeyValues.round_id, backup_piece_id : KeyValues.backup_piece_id,
              copy_id : KeyValues.copy_id]

\* PIECE_FILE_STATUS_STRS order; MAX is BACKUP_FILE_MAX, the invalid value.
FileStatuses == {"AVAILABLE", "COPYING", "INCOMPLETE", "DELETING", "EXPIRED",
                 "BROKEN", "DELETED"}

Codes == {"SUCCESS", "INVALID_ARGUMENT", "ERR_UNEXPECTED"}

VARIABLES
  file_status,   \* Files -> file_status_ of the row
  ret,           \* return code of the last check_can_change_status()
  broken,        \* rows that have been BROKEN
  incomplete,    \* rows made INCOMPLETE and not COPYING since
  key            \* Files -> the row's ObBackupPieceInfoKey

vars == <<file_status, ret, broken, incomplete, key>>

-----------------------------------------------------------------------------
\* The switch of check_can_change_status(): source status |-> the
\* destinations its case lets through.
FileStatusMovesBrokenExpires ==
  [ AVAILABLE  |-> {"BROKEN", "EXPIRED", "DELETING", "AVAILABLE", "INCOMPLETE"},
    INCOMPLETE |-> {"COPYING", "INCOMPLETE", "DELETING"},
    COPYING    |-> {"COPYING", "AVAILABLE", "INCOMPLETE"},
    BROKEN     |-> {"BROKEN", "DELETING", "EXPIRED"},
    EXPIRED    |-> {"EXPIRED", "AVAILABLE", "DELETING"},
    DELETING   |-> {"DELETING", "DELETED"},
    DELETED    |-> {"DELETED"} ]

FileStatusMovesDeletingExpires ==
  [ AVAILABLE  |-> {"BROKEN", "EXPIRED", "DELETING", "AVAILABLE", "INCOMPLETE"},
    INCOMPLETE |-> {"COPYING", "INCOMPLETE", "DELETING"},
    COPYING    |-> {"COPYING", "AVAILABLE", "INCOMPLETE"},
    BROKEN     |-> {"BROKEN", "DELETING"},
    EXPIRED    |-> {"EXPIRED", "AVAILABLE", "DELETING"},
    DELETING   |-> {"DELETING", "DELETED", "EXPIRED"},
    DELETED    |-> {"DELETED"} ]

FileStatusMovesIncompleteAvailable ==
  [ AVAILABLE  |-> {"BROKEN", "EXPIRED", "DELETING", "AVAILABLE", "INCOMPLETE"},
    INCOMPLETE |-> {"COPYING", "INCOMPLETE", "DELETING", "AVAILABLE"},
    COPYING    |-> {"COPYING", "AVAILABLE", "INCOMPLETE"},
    BROKEN     |-> {"BROKEN", "DELETING"},
    EXPIRED    |-> {"EXPIRED", "AVAILABLE", "DELETING"},
    DELETING   |-> {"DELETING", "DELETED"},
    DELETED    |-> {"DELETED"} ]

FileStatusMoves ==
  [ AVAILABLE  |-> {"BROKEN", "EXPIRED", "DELETING", "AVAILABLE", "INCOMPLETE"},
    INCOMPLETE |-> {"COPYING", "INCOMPLETE", "DELETING"},
    COPYING    |-> {"COPYING", "AVAILABLE", "INCOMPLETE"},
    BROKEN     |-> {"BROKEN", "DELETING"},
    EXPIRED    |-> {"EXPIRED", "AVAILABLE", "DELETING"},
    DELETING   |-> {"DELETING", "DELETED"},
    DELETED    |-> {"DELETED"} ]

\* check_can_change_status(src, dest): MAX on either side is an invalid
\* argument; a destination the source's case does not list is unexpected.
CheckCanChangeStatus(src, dest) ==
  CASE src = "MAX" \/ dest = "MAX"  -> "INVALID_ARGUMENT"
    [] dest \in FileStatusMoves[src] -> "SUCCESS"
    [] OTHER                         -> "ERR_UNEXPECTED"

-----------------------------------------------------------------------------
(* ObBackupPieceInfoKey.                                                   *)

\* operator==: all five fields equal.
PieceKeyEqual(a, b) == \A i \in 1 .. 5 : a[KeyFields[i]] = b[KeyFields[i]]

\* operator< without the branch that ends the comparison when tenant_id_
\* is greater, so a larger tenant falls through to round_id_.
PieceKeyLessNoTenantTie(a, b) ==
  CASE a.incarnation < b.incarnation -> TRUE
    [] a.incarnation > b.incarnation -> FALSE
    [] a.tenant_id < b.tenant_id -> TRUE
    [] a.round_id < b.round_id -> TRUE
    [] a.round_id > b.round_id -> FALSE
    [] a.backup_piece_id < b.backup_piece_id -> TRUE
    [] a.backup_piece_id > b.backup_piece_id -> FALSE
    [] OTHER -> a.copy_id < b.copy_id

\* operator<: the if-else chain over the fields, first difference decides.
PieceKeyLess(a, b) ==
  CASE a.incarnation < b.incarnation -> TRUE
    [] a.incarnation > b.incarnation -> FALSE
    [] a.tenant_id < b.tenant_id -> TRUE
    [] a.tenant_id > b.tenant_id -> FALSE
    [] a.round_id < b.round_id -> TRUE
    [] a.round_id > b.round_id -> FALSE
    [] a.backup_piece_id < b.backup_piece_id -> TRUE
    [] a.backup_piece_id > b.backup_piece_id -> FALSE
    [] OTHER -> a.copy_id < b.copy_id

\* Reference: the lexicographic order on sequences of integers.
RECURSIVE LexLess(_, _)
LexLess(s, t) ==
  IF s = <<>> THEN FALSE
  ELSE \/ Head(s) < Head(t)
       \/ Head(s) = Head(t) /\ LexLess(Tail(s), Tail(t))

KeySeq(k) == [i \in 1 .. 5 |-> k[KeyFields[i]]]

-----------------------------------------------------------------------------
\* Rows as the catalog holds them: any valid file status.
Init ==
  /\ file_status \in [Files -> FileStatuses]
  /\ ret = "SUCCESS"
  /\ broken = {f \in Files : file_status[f] = "BROKEN"}
  /\ incomplete = {f \in Files : file_status[f] = "INCOMPLETE"}
  /\ key \in [Files -> PieceKeys]

\* A request to change row f to dest: the row takes dest only when
\* check_can_change_status() succeeds.
ChangeFileStatus(f, dest) ==
  LET code == CheckCanChangeStatus(file_status[f], dest)
      new  == IF code = "SUCCESS" THEN dest ELSE file_status[f]
  IN /\ ret' = code
     /\ file_status' = [file_status EXCEPT ![f] = new]
     /\ broken' = IF new = "BROKEN" THEN broken \cup {f} ELSE broken
     /\ incomplete' = CASE new = "INCOMPLETE" -> incomplete \cup {f}
                        [] new = "COPYING"    -> incomplete \ {f}
                        [] OTHER              -> incomplete
     /\ UNCHANGED key

Next == \E f \in Files, dest \in FileStatuses \cup {"MAX"} : ChangeFileStatus(f, dest)

Spec == Init /\ [][Next]_vars

-----------------------------------------------------------------------------
(* Properties.                                                             *)

\* Deletion is final: once check_can_change_status() has let a row into
\* DELETING or DELETED, no sequence of requests brings it back to a status
\* in which the backup could be restored from or copied.
DeletionIsFinal ==
  [][\A f \in Files :
       file_status[f] \in {"DELETING", "DELETED"} =>
         file_status'[f] \in {"DELETING", "DELETED"}]_vars

\* A row that has once been marked BROKEN (its data failed verification)
\* is never AVAILABLE, COPYING or EXPIRED again, whatever path of changes
\* the table allows: it can only be deleted.
BrokenNeverRestored ==
  \A f \in broken : file_status[f] \in {"BROKEN", "DELETING", "DELETED"}

\* Piece rows sort consistently: ObBackupPieceInfoKey's operator< is the
\* lexicographic order on (incarnation, tenant_id, round_id,
\* backup_piece_id, copy_id), hence a strict total order, and two keys
\* neither of which is less than the other are operator== equal.
PieceKeyOrderIsLexicographic ==
  \A f, g \in Files :
    LET a == key[f]
        b == key[g]
    IN /\ PieceKeyLess(a, b) <=> LexLess(KeySeq(a), KeySeq(b))
       /\ PieceKeyEqual(a, b) <=> ~PieceKeyLess(a, b) /\ ~PieceKeyLess(b, a)

\* A row made INCOMPLETE is AVAILABLE again only after it has been
\* COPYING: check_can_change_status() lets no other path lead back.
IncompleteNeedsCopy ==
  \A f \in incomplete : file_status[f] # "AVAILABLE"
=============================================================================
