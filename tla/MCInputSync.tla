---------------------------- MODULE MCInputSync ----------------------------
(***************************************************************************)
(* InputSync on small storages.                                            *)
(***************************************************************************)
EXTENDS InputSync
=============================================================================
