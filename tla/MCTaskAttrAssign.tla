--------------------------- MODULE MCTaskAttrAssign ---------------------------
(* TaskAttrAssign with one valid and one or two invalid source records per *)
(* class, and setter strings that hit, miss or are empty for every table.  *)
EXTENDS TaskAttrAssign

MCRows ==
  [job       |-> {[incarnation_id |-> 1, start_ts |-> 1, status |-> "DOING", plus_archivelog |-> TRUE],
                  [incarnation_id |-> 0, start_ts |-> 1, status |-> "DOING", plus_archivelog |-> FALSE]},
   set_task  |-> {[task_id |-> 1, status |-> "DOING", start_ts |-> 1],
                  [task_id |-> 0, status |-> "INIT", start_ts |-> 1]},
   ls_task   |-> {[task_id |-> 1, status |-> "DOING", turn_id |-> 1, black_servers |-> <<"s1">>],
                  [task_id |-> 0, status |-> "DOING", turn_id |-> 1, black_servers |-> <<>>]},
   file_desc |-> {[backup_set_id |-> 1, status |-> "SUCCESS", plus_archivelog |-> TRUE],
                  [backup_set_id |-> 1, status |-> "MAX", plus_archivelog |-> FALSE]},
   dest_attr |-> {[dest |-> "good", dest_id |-> 1, piece_switch_interval |-> "ok",
                   binding |-> "MANDATORY", state |-> "DEFER"],
                  [dest |-> "good", dest_id |-> 0, piece_switch_interval |-> "ok",
                   binding |-> "MANDATORY", state |-> "DEFER"],
                  [dest |-> "half", dest_id |-> 1, piece_switch_interval |-> "low",
                   binding |-> "MANDATORY", state |-> "DEFER"]}]

MCWords == {"", "DOING", "FINISH", "SUCCESS", "ON", "DEFER", "MANDATORY", "BOGUS"}

\* A value in range, a value below the minimum, and a string that does not parse.
MCTimes == {[value |-> "ok", ok |-> TRUE], [value |-> "low", ok |-> TRUE],
            [value |-> "ok", ok |-> FALSE]}

MCMaxBlack == 2
=============================================================================
