SPECIFICATION PartsSpec
CONSTANTS
    a = a
    b = b
    Address <- MCAddress
    Reports <- MCReports
    ChannelCap = 2
    InitialFiles <- MCInitialFiles
    MaxSends = 3
    Feeds <- Report
    Requested = 2
    MaxFed = 3
INVARIANTS
    AggregateAgrees
    PublicContract
    DeliveredOrCounted
    NeverFused
PROPERTIES
    WriterEnds
