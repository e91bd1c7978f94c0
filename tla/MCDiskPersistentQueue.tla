------------------------ MODULE MCDiskPersistentQueue ------------------------
(* DiskPersistentQueue on small instances: adders and runners are model    *)
(* values, interchangeable where no liveness property is checked.          *)
EXTENDS DiskPersistentQueue, TLC

Symmetry == Permutations(Adders) \cup Permutations(Runners)

=============================================================================
