--------------------------- MODULE MCServerVotes ---------------------------
(***************************************************************************)
(* Instances of ServerVotes for TLC: four connections of three networks,   *)
(* so that two clients can share one (three networks are the fewest a vote *)
(* against a player needs).                                                *)
(***************************************************************************)
EXTENDS ServerVotes, TLC

CONSTANTS c1, c2, c3, c4, i1, i2, i3

Con4 == {c1, c2, c3, c4}
Ip3 == {i1, i2, i3}

\* c1 and c2 share a network.
SharedIp == c1 :> i1 @@ c2 :> i1 @@ c3 :> i2 @@ c4 :> i3
=============================================================================
