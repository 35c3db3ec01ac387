\* The same instance as for the search of rows and events: the frames of a region.
SPECIFICATION EventSpec
CONSTANTS
    VideoIds = {1, 2}
    LastFrame = 6
    Scores = {1, 2}
    Searches <- MCSearches
    DenseScore <- MCDenseScore
    Window = 1
    Interval = 1
    MaxFrames = 2
    MaxPerVideo = 2
    MaxTotal = 3
    Penalty = 1
    MaxGap = 3
    Absent = Absent
INVARIANTS FramesWithinLimit
CHECK_DEADLOCK FALSE
