SPECIFICATION FairSpec
CHECK_DEADLOCK FALSE
CONSTANTS
    Hosts <- MCHosts
    run <- scan
    Word <- MCWord
    ConfNames <- MCConfNames
    none = none
    MAX_ENTRIES = 2
    MAX_ALIAS_DEPTH = 2
    MAX_INCLUDE_DEPTH = 2
    MAX_SUDOERS_FILES = 6
    MAX_CONF_FILES = 3
    MAX_QUEUE_LEN = 3
    MAX_GENERATORS = 2
    MAX_PAM_FINDINGS = 3
    MAX_EXEC_FINDINGS = 3
    BUDGET = 2
    MAX_MOUNT_FINDINGS = 2
    MAX_PIDS = 2
    MAX_FOREIGN_NETNS = 1
INVARIANTS
    SilentMeansComplete
    NoRootRuleMissed
    FallbackNoMilder
    AbsenceIsObserved
PROPERTIES
    ImplementsContract
    ScanReturns
