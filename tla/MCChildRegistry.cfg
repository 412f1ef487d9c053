SPECIFICATION FairSpec
CONSTANTS
    w1 = w1
    w2 = w2
    p1 = p1
    p2 = p2
    NoPid = NoPid
    Worker <- MCWorker
    Pid <- MCPid
    MaxCalls = 2
INVARIANTS
    NeverStray
    GroupIsDead
PROPERTIES
    CallReturns
