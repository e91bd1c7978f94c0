--------------------------- MODULE MCTaskTracking ---------------------------
(* Small instances of TaskTracking for TLC.                                *)
EXTENDS TaskTracking
=============================================================================
