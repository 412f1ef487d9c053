SPECIFICATION Spec
CHECK_DEADLOCK FALSE
CONSTANTS
    Machines <- MCMachines
    Kinds = {"plain", "thread", "buried"}
    PROBE_CYCLES = 3
    MAX_FINDINGS = 2
    PID_MAX_FALLBACK = 3
    WRAP_TAIL_FRACTION = 2
    MaxStarts = 4
    Modules = {"ext4", "nf"}
    none = none
INVARIANTS
    ConfirmedIsHidden
    SuspicionTakesRaces
    HiddenIsFound
    ModulesAreJudged
