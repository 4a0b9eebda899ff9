CONSTANTS
    c1 = c1
    c2 = c2
    c3 = c3
    c4 = c4
    i1 = i1
    i2 = i2
    i3 = i3
    None = None
    Con <- Con4
    Ip <- Ip3
    ip <- SharedIp
SPECIFICATION FairSpec
INVARIANTS
    TallyMatchesBallots
    OnlyPresentNetworksVote
    TalliesWithinBound
    PassedByMajority
PROPERTY EveryVoteEnds
