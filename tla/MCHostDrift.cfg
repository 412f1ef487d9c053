CONSTANTS
    Hardened <- MCHardened
    Entries <- MCEntries
    Values <- MCValues
    Topics <- MCTopics
    Rules <- MCRules
    Hostname <- MCHostname
    Unknown <- MCUnknown
    Controllers <- MCControllers
    MaxBefore = 2
    MaxAfter = 2
    MaxPanics = 1
    MaxRules = 2
    LastDay = 2
SPECIFICATION Spec
INVARIANTS
    WeightsAreSound
    DriftIsHonest
    UnreadIsNotImproved
    
PROPERTIES
    EvidenceNeverExcuses
    LapsesReopen
CHECK_DEADLOCK FALSE
