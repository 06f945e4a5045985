---------------------------- MODULE MCSnapshotMgr ----------------------------
(* Instances of SnapshotMgr for TLC. *)
EXTENDS SnapshotMgr
=============================================================================
