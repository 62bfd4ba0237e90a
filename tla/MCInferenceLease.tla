-------------------------- MODULE MCInferenceLease --------------------------
(* Symmetry of the inference lease's model values for a safety run.        *)
EXTENDS InferenceLease, TLC

Symmetry == Permutations(Clients) \cup Permutations(Requests)
=============================================================================
