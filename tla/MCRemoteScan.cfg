SPECIFICATION FairSpec
CONSTANTS
    Retries = 1
    CONNECT_BUDGET = 0
    HANDSHAKE_AUTH_BUDGET = 0
    SCAN_BUDGET = 1
    CLEANUP_BUDGET = 1
    DISCONNECT_BUDGET = 0
    CEILING_MARGIN = 1
    Backoff = 0
    Options <- MCOptions
INVARIANTS
    SilentMeansClean
    RunsWhatItSent
PROPERTIES
    OperatorFileSafe
    CeilingOutlivesAttempt
    ScanEnds
