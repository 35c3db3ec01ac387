\* One video, two contents and settings, two faults, nothing comes back.
CONSTANTS
    byshot = byshot
    sparse = sparse
    s1 = s1
    s2 = s2
    e1 = e1
    e2 = e2
    Videos = {v1}
    Sources = {s1, s2}
    Settings = {byshot, sparse}
    Encoders = {e1}
    Frames = {0, 1, 2}
    DedupSettings = {sparse}
    Reverts = FALSE
    MaxFaults = 2
    Shots <- MCShots
    Legacy <- OwnRevision
    Periodic <- MCPeriodic
    Similar <- MCSimilar
    Policy <- MCPolicy
    Extension <- MCExtension
    Size <- MCSize
    Dim <- MCDim
    None = None
SPECIFICATION FairSpec
INVARIANTS TypeOK ResumedFramesAreClean
PROPERTIES Recovers
CHECK_DEADLOCK FALSE
