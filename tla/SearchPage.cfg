\* Two searches or cancellations, two events, two results.
SPECIFICATION Spec
CONSTANTS
    MaxEvents = 2
    MaxImageBytes = 3
    Overhead = 1
    Images <- MCImages
    Shapes <- MCShapes
    MaxResults = 2
    MaxVersion = 2
    MaxCopies = 2
    None = None
INVARIANTS
    ResultsStayTogether
    BusyWhilePending
    ValidatedIsAccepted
PROPERTIES
    SearchEnds
CHECK_DEADLOCK FALSE
