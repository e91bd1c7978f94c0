------------------------- MODULE MCDurableDelivery -------------------------
(* DurableDelivery on small instances: cycles are model values.            *)
EXTENDS DurableDelivery, TLC

Symmetry == Permutations(Cycles)

=============================================================================
