SPECIFICATION Spec
CONSTANTS
    l1 = l1
    l2 = l2
    r1 = r1
    r2 = r2
    r3 = r3
    Address <- RemoteAddress
    LocalAlias <- NoAlias
    HostLists <- RemoteLists
    Reports <- OneReport
    MaxConcurrent = 2
    ChannelCap = 1
    Streaming = FALSE
    FailOnIncomplete = FALSE
    Faults = TRUE
    Pipe = TRUE
    MaxSignals = 3
    MaxRuns = 1
INVARIANTS
    AdmissionBound
    NoHostDropped
    AtMostOneLateAdmission
