SPECIFICATION Spec
CONSTANTS
    l1 = l1
    l2 = l2
    r1 = r1
    r2 = r2
    r3 = r3
    Address <- PairAddress
    LocalAlias <- OneAlias
    HostLists <- PairLists
    Reports <- CleanOrCompromised
    MaxConcurrent = 1
    ChannelCap = 1
    Streaming = TRUE
    FailOnIncomplete = FALSE
    Faults = TRUE
    Pipe = FALSE
    MaxSignals = 0
    MaxRuns = 2
INVARIANTS
    CompromiseNeverMasked
