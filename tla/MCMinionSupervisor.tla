------------------------- MODULE MCMinionSupervisor -------------------------
(* Small instances of MinionSupervisor for TLC.                            *)
EXTENDS MinionSupervisor
=============================================================================
