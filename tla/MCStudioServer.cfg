SPECIFICATION FairSpec
CONSTANTS
    FrontEnds = {"stdin", "contract"}
    MaxRequests = 3
INVARIANTS
    PrintedInOrder
PROPERTIES
    ServiceSpec
    EveryRequestSettled
    ExitsWhenClosed
CHECK_DEADLOCK FALSE
