SPECIFICATION Spec
CONSTANTS
    Object <- MCObject
    Template <- MCTemplate
    Roots <- MCRoots
    Payable <- MCPayable
    OutputMaps <- MCOutputMaps
    UserOutputs <- MCUserOutputs
    ChangePositions <- MCChangePositions
INVARIANTS
    EveryCoinListed
CHECK_DEADLOCK FALSE
