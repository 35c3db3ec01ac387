\* Two videos, two settings and encoders, one fault.
CONSTANTS
    byshot = byshot
    sparse = sparse
    s1 = s1
    s2 = s2
    e1 = e1
    e2 = e2
    Videos = {v1, v2}
    Sources = {s1}
    Settings = {byshot, sparse}
    Encoders = {e1, e2}
    Frames = {0, 1, 2}
    DedupSettings = {sparse}
    Reverts = FALSE
    MaxFaults = 1
    Shots <- MCShots
    Legacy <- WasDefault
    Periodic <- MCPeriodic
    Similar <- MCSimilar
    Policy <- MCPolicy
    Extension <- MCExtension
    Size <- MCSize
    Dim <- MCDim
    None = None
SPECIFICATION Spec
PROPERTIES PublishedMatch PublicationKeeps
CHECK_DEADLOCK FALSE
