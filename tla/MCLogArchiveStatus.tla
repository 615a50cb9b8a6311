------------------------- MODULE MCLogArchiveStatus -------------------------
(* Model-checking instance of LogArchiveStatus: reports carry timestamps   *)
(* -1..2, enough for a report below, equal to and above a receiver's       *)
(* positive watermark.                                                     *)
EXTENDS LogArchiveStatus

MCMaxTs == 2
=============================================================================
