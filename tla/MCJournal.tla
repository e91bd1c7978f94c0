------------------------------ MODULE MCJournal ------------------------------
(* Journal on a small instance: callers are model values, cycles are       *)
(* numbers because their order matters.                                    *)
EXTENDS Journal, TLC

=============================================================================
