SPECIFICATION Spec
CONSTANTS
    Object <- MCObject
    Template <- MCTemplate
    Roots <- MCRoots
    Payable <- MCPayable
    OutputMaps <- MCOutputMaps
    UserOutputs <- MCUserOutputs
    ChangePositions <- MCChangePositions
INVARIANTS
    InputsResolve
    NoConflicts
    OraclesKnowEveryCoin
    FundingPaysContract
    ProgramComplete
CHECK_DEADLOCK FALSE
