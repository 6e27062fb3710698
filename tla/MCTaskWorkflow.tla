--------------------------- MODULE MCTaskWorkflow ---------------------------
(* Model values and symmetry for the Flow*.cfg runs.                        *)
EXTENDS TaskWorkflow, TLC

Drives == Permutations(Drive)
=============================================================================
