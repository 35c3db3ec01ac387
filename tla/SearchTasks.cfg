\* Rows: two videos with three frames each, up to two texts, the two or three best rows
\* asked for.  Events: two videos of seven frames, two or three events, both backends.
SPECIFICATION Spec
CONSTANTS
    Videos = {1, 2}
    Frames = {0, 1, 3}
    Corpora <- MCCorpora
    Requests <- MCRequests
    Near = 2
    Radius = 1
    RrfK = 1
    Unit = 420
    RemoteTopN = 1
    JoinedLexical <- MCJoinedLexical
    None = None
    NoAnswer = NoAnswer
    VideoIds = {1, 2}
    LastFrame = 6
    Scores = {1, 2}
    Searches <- MCSearches
    DenseScore <- MCDenseScore
    Window = 1
    Interval = 1
    MaxFrames = 2
    MaxPerVideo = 2
    MaxTotal = 3
    Penalty = 1
    MaxGap = 3
    Absent = Absent
INVARIANTS
    TypeOK
    FilterIsGreedy
    
    EvidenceHelps
    BestSequence
    RefinementKeeps
    RegionsAreSound
CHECK_DEADLOCK FALSE
