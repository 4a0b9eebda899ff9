--------------------------- MODULE MCOrderedSend ---------------------------
(***************************************************************************)
(* Instances of OrderedSend for TLC: the Global channel and one or two     *)
(* others.  Three streams are enough for the Global channel and another;   *)
(* with two others the code stops giving channels a stream of their own.   *)
(***************************************************************************)
EXTENDS OrderedSend, TLC

CONSTANTS g, a, b

TheChannels == {g, a, b}
TwoChannels == {g, a}

=============================================================================
