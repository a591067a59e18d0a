--------------------------- MODULE MCTriggerRuns ---------------------------
(* Instances of TriggerRuns for TLC. *)
EXTENDS TriggerRuns, TLC
=============================================================================
