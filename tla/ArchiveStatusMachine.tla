------------------------ MODULE ArchiveStatusMachine ------------------------
(***************************************************************************)
(* What a tenant's continuous log-archive status promises its callers,    *)
(* stated over the status alone and the two watermarks it carries.        *)
(*                                                                         *)
(*  - the status moves only along the allow-table of spec.md section 4.3   *)
(*    (MIXED and the unset value never move);                              *)
(*  - the checkpoint never goes back, and moves only into or within DOING; *)
(*  - the start watermark is fixed when the round enters DOING;            *)
(*  - the mount-file flag, once set, stays set.                            *)
(*                                                                         *)
(* LogArchiveStatus refines this machine (RefinesArchiveStatusMachine).    *)
(***************************************************************************)
EXTENDS Integers

VARIABLES astatus, astart, acheckpoint, amount

avars == <<astatus, astart, acheckpoint, amount>>

\* The allow-table: current status |-> statuses an update may leave it in.
\* PAUSED accepts INTERRUPTED as a no-op, so INTERRUPTED is not a target.
Allowed ==
  [ STOP        |-> {"STOP"},
    BEGINNING   |-> {"BEGINNING", "DOING", "STOPPING", "STOP", "INTERRUPTED"},
    DOING       |-> {"DOING", "STOPPING", "STOP", "INTERRUPTED", "PAUSED"},
    STOPPING    |-> {"STOPPING", "STOP"},
    INTERRUPTED |-> {"INTERRUPTED", "STOPPING", "STOP"},
    PAUSED      |-> {"PAUSED", "DOING", "STOP"} ]

Moves(s) == IF s \in DOMAIN Allowed THEN Allowed[s] ELSE {s}

AInit ==
  /\ astatus \in {"STOP", "BEGINNING", "MIXED", "MAX"}
  /\ astart = 0
  /\ acheckpoint = 0
  /\ amount = FALSE

ANext ==
  /\ astatus' \in Moves(astatus)
  /\ acheckpoint' >= acheckpoint
  /\ acheckpoint' # acheckpoint => astatus' = "DOING"
  /\ astart' # astart => astatus = "BEGINNING" /\ astatus' = "DOING"
  /\ amount => amount'

ASpec == AInit /\ [][ANext]_avars
=============================================================================
