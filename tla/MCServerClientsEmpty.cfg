CONSTANTS
    c1 = c1
    c2 = c2
    c3 = c3
    c4 = c4
    l1 = l1
    l2 = l2
    l3 = l3
    Con <- Con4
    LocalId <- LocalId3
    MaxPlayers = 4
    MaxPlayersPerClient = 2
SYMMETRY Symmetry
SPECIFICATION Spec
INVARIANT
    EmptyServerCountsNobody
