----------------------- MODULE MCConnectionLifecycle -----------------------
(***************************************************************************)
(* Instances of ConnectionLifecycle for TLC: three connections, two of one *)
(* address, so that both limits and a ban can bite.                        *)
(***************************************************************************)
EXTENDS ConnectionLifecycle, TLC

CONSTANTS c1, c2, c3, i1, i2

Con3 == {c1, c2, c3}
Ip2 == {i1, i2}

\* c1 and c2 come from one address.
SharedIp == c1 :> i1 @@ c2 :> i1 @@ c3 :> i2

\* The two connections of one address are interchangeable.
Symmetry == Permutations({c1, c2})

=============================================================================
