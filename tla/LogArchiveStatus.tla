-------------------------- MODULE LogArchiveStatus --------------------------
(***************************************************************************)
(* A tenant's continuous log-archive status, ObTenantLogArchiveStatus in  *)
(* src/share/backup/ob_backup_struct.cpp, and its only mutator update().  *)
(*                                                                         *)
(* The receiver is the status record the archive scheduler holds for one  *)
(* (tenant, incarnation, round).  Every step is one call of update() with *)
(* a new_status report chosen from Requests: reports arrive in any order, *)
(* repeated or stale, which is exactly what update() has to guard against.*)
(* The report and the return code of the last call are kept in req and    *)
(* ret so that properties can relate a call to its effect.                *)
(*                                                                         *)
(* Abstracted: tenant_id_/incarnation_/round_/compatible_ are folded into *)
(* one flag same_key of the report; copy_id_, backup_piece_id_ and        *)
(* start_piece_id_ are never written by update() and are left out (the    *)
(* piece key they give is in PieceKey below); timestamps are 0..MaxTs     *)
(* plus the -1 that is_valid() still admits in a report.                  *)
(***************************************************************************)
EXTENDS Integers

CONSTANT MaxTs    \* largest start/checkpoint timestamp a report carries
ASSUME MaxTs \in Nat \ {0}

\* ObLogArchiveStatus::STATUS, status_strs order; MAX is the unset value the
\* constructor and reset() store.
Statuses == {"INVALID", "STOP", "BEGINNING", "DOING", "STOPPING",
             "INTERRUPTED", "MIXED", "PAUSED", "MAX"}

\* ObLogArchiveStatus::is_valid(): INVALID < s < MAX.
ValidStatuses == Statuses \ {"INVALID", "MAX"}

Ts == 0..MaxTs
ReportTs == -1..MaxTs      \* is_valid() admits start_ts_/checkpoint_ts_ >= -1

Codes == {"SUCCESS", "NOT_INIT", "INVALID_ARGUMENT", "LOG_ARCHIVE_STAT_NOT_MATCH",
          "INVALID_LOG_ARCHIVE_STATUS", "ERR_SYS"}

\* A new_status argument.  same_key: incarnation_, round_, tenant_id_ and
\* compatible_ all equal the receiver's.
Requests == [status : Statuses \ {"MAX"}, start_ts : ReportTs,
             checkpoint_ts : ReportTs, mount : BOOLEAN, same_key : BOOLEAN]

NoRequest == [status |-> "MAX", start_ts |-> 0, checkpoint_ts |-> 0,
              mount |-> FALSE, same_key |-> TRUE]

VARIABLES
  status,                 \* status_
  start_ts,               \* start_ts_
  checkpoint_ts,          \* checkpoint_ts_
  is_mount_file_created,  \* is_mount_file_created_
  ret,                    \* return code of the last update()
  req                     \* new_status of the last update()

receiver == <<status, start_ts, checkpoint_ts, is_mount_file_created>>
vars == <<status, start_ts, checkpoint_ts, is_mount_file_created, ret, req>>

-----------------------------------------------------------------------------
(* Validity and the derived piece key.                                     *)

\* ObTenantLogArchiveStatus::is_valid(); the other fields' bounds hold in
\* every state of the model.
IsValid == status \in ValidStatuses

RequestIsValid(n) == n.status \in ValidStatuses

\* get_piece_key(): the piece id of the key is zeroed unless a piece switch
\* is pending (need_switch_piece()).
NeedSwitchPiece(start_piece_id) == start_piece_id > 0

PieceKey(incarnation, tenant, round, piece_id, start_piece_id, copy_id) ==
  [incarnation |-> incarnation, tenant_id |-> tenant, round_id |-> round,
   backup_piece_id |-> IF NeedSwitchPiece(start_piece_id) THEN piece_id ELSE 0,
   copy_id |-> copy_id]

-----------------------------------------------------------------------------
(* Outcomes a handler leaves the status fields in.                         *)

Adopt(s) == status' = s /\ ret' = "SUCCESS" /\ UNCHANGED <<start_ts, checkpoint_ts>>
Keep == ret' = "SUCCESS" /\ UNCHANGED <<status, start_ts, checkpoint_ts>>
Fail(code) == ret' = code /\ UNCHANGED <<status, start_ts, checkpoint_ts>>

\* Statuses each handler adopts as the new status (its "adopt" branch).
BeginningAdopts == {"STOPPING", "STOP", "INTERRUPTED"}
DoingAdopts == {"STOPPING", "STOP", "INTERRUPTED", "PAUSED"}
StoppingAdopts == {"STOP"}
InterruptedAdopts == {"STOPPING", "STOP"}
PausedAdopts == {"DOING", "STOP"}

\* The timestamps a BEGINNING -> DOING report must carry.
BeginTsValidNoStartCheck(n) == 0 < n.checkpoint_ts
BeginTsValidNoCkptCheck(n) == 0 < n.start_ts
BeginTsValid(n) == 0 < n.start_ts /\ 0 < n.checkpoint_ts

\* A DOING -> DOING report is in order: its start_ts is not larger, and its
\* checkpoint_ts not smaller, than the receiver's.
DoingReportOrderedNoCkptCheck(n) == ~(start_ts < n.start_ts)
DoingReportOrdered(n) == ~(start_ts < n.start_ts) /\ ~(checkpoint_ts > n.checkpoint_ts)

\* The mount flag may not go from true to false.
MountNotChecked(n) == TRUE
MountKept(n) == ~(is_mount_file_created /\ ~n.mount)

-----------------------------------------------------------------------------
(* The per-status handlers update_<status>_().                             *)

UpdateStop(n) ==
  \/ n.status = "STOP" /\ Keep
  \/ n.status # "STOP" /\ Fail("LOG_ARCHIVE_STAT_NOT_MATCH")

UpdateBeginning(n) ==
  \/ /\ n.status = "DOING"
     /\ BeginTsValid(n)
     /\ status' = "DOING"
     /\ start_ts' = n.start_ts
     /\ checkpoint_ts' = n.checkpoint_ts
     /\ ret' = "SUCCESS"
  \/ n.status = "DOING" /\ ~BeginTsValid(n) /\ Fail("INVALID_LOG_ARCHIVE_STATUS")
  \/ n.status = "BEGINNING" /\ Keep
  \/ n.status \in BeginningAdopts /\ Adopt(n.status)
  \/ /\ n.status \notin {"DOING", "BEGINNING"} \cup BeginningAdopts
     /\ Fail("LOG_ARCHIVE_STAT_NOT_MATCH")

UpdateDoing(n) ==
  \/ /\ n.status = "DOING"
     /\ DoingReportOrdered(n)
     /\ checkpoint_ts' = n.checkpoint_ts
     /\ ret' = "SUCCESS"
     /\ UNCHANGED <<status, start_ts>>
  \/ n.status = "DOING" /\ ~DoingReportOrdered(n) /\ Fail("INVALID_LOG_ARCHIVE_STATUS")
  \/ n.status \in DoingAdopts /\ Adopt(n.status)
  \/ n.status \notin {"DOING"} \cup DoingAdopts /\ Fail("LOG_ARCHIVE_STAT_NOT_MATCH")

UpdateStopping(n) ==
  \/ n.status = "STOPPING" /\ Keep
  \/ n.status \in StoppingAdopts /\ Adopt(n.status)
  \/ n.status \notin {"STOPPING"} \cup StoppingAdopts /\ Fail("LOG_ARCHIVE_STAT_NOT_MATCH")

UpdateInterrupted(n) ==
  \/ n.status = "INTERRUPTED" /\ Keep
  \/ n.status \in InterruptedAdopts /\ Adopt(n.status)
  \/ n.status \notin {"INTERRUPTED"} \cup InterruptedAdopts /\ Fail("LOG_ARCHIVE_STAT_NOT_MATCH")

\* PAUSED takes an INTERRUPTED report as a no-op (spec.md, open question).
UpdatePaused(n) ==
  \/ n.status = "INTERRUPTED" /\ Keep
  \/ n.status \in PausedAdopts /\ Adopt(n.status)
  \/ n.status \notin {"INTERRUPTED"} \cup PausedAdopts /\ Fail("LOG_ARCHIVE_STAT_NOT_MATCH")

\* The switch on the receiver's status; MIXED reaches the default branch.
Dispatch(n) ==
  CASE status = "STOP"        -> UpdateStop(n)
    [] status = "BEGINNING"   -> UpdateBeginning(n)
    [] status = "DOING"       -> UpdateDoing(n)
    [] status = "STOPPING"    -> UpdateStopping(n)
    [] status = "INTERRUPTED" -> UpdateInterrupted(n)
    [] status = "PAUSED"      -> UpdatePaused(n)
    [] OTHER                  -> Fail("ERR_SYS")

\* update(new_status).  The mount flag is adopted before the dispatch, so a
\* report the handler then rejects still sets it.
Update(n) ==
  /\ req' = n
  /\ \/ /\ ~IsValid
        /\ ret' = "NOT_INIT"
        /\ UNCHANGED receiver
     \/ /\ IsValid
        /\ ~(RequestIsValid(n) /\ n.same_key)
        /\ ret' = "INVALID_ARGUMENT"
        /\ UNCHANGED receiver
     \/ /\ IsValid /\ RequestIsValid(n) /\ n.same_key
        /\ ~MountKept(n)
        /\ ret' = "INVALID_ARGUMENT"
        /\ UNCHANGED receiver
     \/ /\ IsValid /\ RequestIsValid(n) /\ n.same_key
        /\ MountKept(n)
        /\ is_mount_file_created' = n.mount
        /\ Dispatch(n)

-----------------------------------------------------------------------------
(* A round starts from a freshly reset or constructed record: BEGINNING    *)
(* when the archive starts, STOP for a round that is over, MIXED as the    *)
(* cluster-level aggregate is read back, MAX for a record never set.       *)

Init ==
  /\ status \in {"STOP", "BEGINNING", "MIXED", "MAX"}
  /\ start_ts = 0
  /\ checkpoint_ts = 0
  /\ is_mount_file_created = FALSE
  /\ ret = "SUCCESS"
  /\ req = NoRequest

Next == \E n \in Requests : Update(n)

Spec == Init /\ [][Next]_vars

-----------------------------------------------------------------------------
(* Properties.                                                             *)

\* Type invariant.  The receiver's watermarks are never the -1 that
\* is_valid() admits in a report: update() adopts timestamps only after
\* update_beginning_() has checked them.
TypeOK ==
  /\ status \in Statuses
  /\ start_ts \in Ts
  /\ checkpoint_ts \in Ts
  /\ is_mount_file_created \in BOOLEAN
  /\ ret \in Codes
  /\ req \in Requests \cup {NoRequest}

\* Whenever the round is archiving (DOING) or paused, both watermarks are
\* set: update_beginning_() adopts DOING only with start_ts and
\* checkpoint_ts positive, and no later report can lower them.
DoingHasPositiveTs ==
  status \in {"DOING", "PAUSED"} => start_ts > 0 /\ checkpoint_ts > 0

\* update() implements the status machine of spec.md section 4.3: only the
\* allow-table's moves, a checkpoint that never goes back, a start watermark
\* fixed on entering DOING, and a mount flag that stays set.
Abs == INSTANCE ArchiveStatusMachine
         WITH astatus <- status, astart <- start_ts,
              acheckpoint <- checkpoint_ts, amount <- is_mount_file_created

RefinesArchiveStatusMachine == Abs!ASpec

\* spec.md section 8.2: an update the handler rejects returns an error and
\* leaves the receiver unmodified.  (update() sets the mount flag first.)
RejectedUpdateLeavesStatus ==
  [][ret' # "SUCCESS" => UNCHANGED receiver]_vars

\* spec.md sections 4.3 and 8.4: a DOING -> DOING report whose start_ts is
\* smaller than the receiver's is rejected.
DoingRejectsEarlierStart ==
  [][ (status = "DOING" /\ req'.status = "DOING" /\ req'.same_key
       /\ MountKept(req') /\ req'.start_ts < start_ts) => ret' # "SUCCESS" ]_vars
=============================================================================
