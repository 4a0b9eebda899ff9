-------------------------- MODULE MCServerClients --------------------------
(***************************************************************************)
(* Instances of ServerClients for TLC.                                     *)
(***************************************************************************)
EXTENDS ServerClients, TLC

CONSTANTS c1, c2, c3, c4, l1, l2, l3

Con4 == {c1, c2, c3, c4}
LocalId3 == {l1, l2, l3}

\* The connections are interchangeable, and so are the local ids.
Symmetry == Permutations(Con4) \cup Permutations(LocalId3)

\* The counter leaks (EmptyServerCountsNobody) but never passes MaxPlayers, so
\* the state space is finite without a bound on it.
=============================================================================
