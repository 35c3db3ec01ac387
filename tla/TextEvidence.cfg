SPECIFICATION FairSpec
CONSTANTS
    Videos = {v1}
    Sources = {a, b}
    Settings = {s1, s2}
    OcrEngines = {o1, o2}
    AsrEngines = {w1}
    Described <- MCDescribed
    Reverts = FALSE
    MaxFaults = 1
    MaxChanges = 1
    None = None
    Bad = Bad
INVARIANTS
    VouchedEvidenceIsRight
PROPERTIES
    EvidenceConverges
CHECK_DEADLOCK TRUE
