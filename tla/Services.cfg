\* Two threads per service; one refiner made anew by a restart.
SPECIFICATION Spec
CONSTANTS
    ObjectTerms <- MCObjectTerms
    Excluded <- MCExcluded
    MaxVariants = 2
    Clients = {1, 2}
    Workloads <- MCWorkloads
    Responses <- MCResponses
    MaxMemory = 1
    MaxRefiners = 3
    None = None
    Requests = {1, 2, 3}
    MaxVersion = 2
    Nothing = Nothing
    Players = {1, 2}
    Sources = {"none", "directory", "remote", "bad url"}
    RemoteSize = 2
    Announced = {0, 2, 9}
    MaxVideoSize = 8
    Ranges <- MCRanges
    NoFile = NoFile
    Callers = {1, 2}
    Setups <- MCSetups
    Queries = {1}
    TopKs = {1, 2}
    TopNs = {1, 2}
    MaxCalls = 2
    Readers <- MCReaders
    Images = 2
    MaxImages = 4
    Recordings <- MCRecordings
    NoTime = NoTime
    Browsers = {b1}
    b1 = b1
    MaxInterrupts = 2
    Sites <- MCSites
    Unset = Unset
    GpuBatch = 4
    CpuBatch = 2
    Window = 4
    Stride = 1
    MaxPieces = 3
INVARIANTS
    PlanCacheIsSound
    
    RegionIsWhole
    OneFileIsServed
    ShardsAnswerAsOne
    BreakerIsEarned
    SupervisorCleansUp
    SamplesCoverTheVideo
    DevicesAreHonoured
    EncodingIsComplete
PROPERTIES
    ServicesAnswer
CHECK_DEADLOCK FALSE
