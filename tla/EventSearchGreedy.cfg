\* The same instance: a refusal of the Qwen backend.
SPECIFICATION EventSpec
CONSTANTS
    VideoIds = {1, 2}
    LastFrame = 6
    Scores = {1, 2}
    Searches <- MCSearches
    DenseScore <- MCDenseScore
    Window = 1
    Interval = 1
    MaxFrames = 2
    MaxPerVideo = 2
    MaxTotal = 3
    Penalty = 1
    MaxGap = 3
    Absent = Absent
INVARIANTS RefusalIsRight
CHECK_DEADLOCK FALSE
