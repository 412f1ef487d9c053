CONSTANTS
    s1 = s1
    s2 = s2
    Scans = {s1, s2}
    Lines <- MCLines
    MaxLines = 3
    Asked <- MCAsked
    Keys <- MCKeys
    SystemFiles <- MCSystemFiles
    Port <- MCPort
    Patterns <- MCPatterns
    MaxPins = 2
SYMMETRY Symmetry
SPECIFICATION Spec
INVARIANTS
    TrustIsSound
PROPERTIES
    TargetsAreNamed
    NeverPinsOverKnown
CHECK_DEADLOCK FALSE
