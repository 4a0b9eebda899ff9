-------------------------- MODULE MCSnapshotSync --------------------------
(***************************************************************************)
(* SnapshotSync on small storages.                                         *)
(***************************************************************************)
EXTENDS SnapshotSync

=============================================================================
