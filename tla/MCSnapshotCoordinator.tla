----------------------- MODULE MCSnapshotCoordinator -----------------------
(* Instances of SnapshotCoordinator for TLC. *)
EXTENDS SnapshotCoordinator, TLC
=============================================================================
