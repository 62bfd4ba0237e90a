--------------------------- MODULE MCManagedTask ---------------------------
(* Symmetry of the handler calls for the run of the managed task.          *)
EXTENDS ManagedTask, TLC

Symmetry == Permutations(Actions)
=============================================================================
