CONSTANTS
    g = g
    a = a
    b = b
    Channel <- TwoChannels
    Global = g
    NumBidiStreams = 3
    MaxPackets = 4
SPECIFICATION FairSpec
INVARIANTS
    OneTaskPerPacket
PROPERTY
    InOrderWithoutGaps
CHECK_DEADLOCK FALSE
PROPERTY EveryPacketIsWritten
