--------------------------- MODULE MCWorkerJournal ---------------------------
(* Processes and tool calls are interchangeable. *)
EXTENDS WorkerJournal, TLC

Symmetry == Permutations(Procs) \cup Permutations(Tools)
=============================================================================
