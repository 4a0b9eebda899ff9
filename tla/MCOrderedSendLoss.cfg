CONSTANTS
    g = g
    a = a
    b = b
    Channel <- TheChannels
    Global = g
    NumBidiStreams = 3
    MaxPackets = 3
SPECIFICATION FairSpec
PROPERTY
    EveryPacketIsWritten
CHECK_DEADLOCK FALSE
