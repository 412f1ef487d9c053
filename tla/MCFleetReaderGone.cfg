SPECIFICATION Spec
CONSTANTS
    l1 = l1
    l2 = l2
    r1 = r1
    r2 = r2
    r3 = r3
    Address <- MixedAddress
    LocalAlias <- OneAlias
    HostLists <- MixedLists
    Reports <- CleanOrCompromised
    MaxConcurrent = 1
    ChannelCap = 1
    Streaming = FALSE
    FailOnIncomplete = FALSE
    Faults = FALSE
    Pipe = TRUE
    MaxSignals = 0
    MaxRuns = 1
INVARIANTS
    CompromiseNeverMasked
