-------------------------- MODULE MCControlBridge --------------------------
(***************************************************************************)
(* ControlBridge with a few control connections.                           *)
(***************************************************************************)
EXTENDS ControlBridge

CONSTANTS c1, c2

One == {c1}
Two == {c1, c2}

=============================================================================
