SPECIFICATION Spec
CONSTANTS
    Amounts <- MCAmounts
    RelLocks <- MCRelLocks
    AbsLocks <- MCAbsLocks
    Clauses = {g1}
    Protocols = {p1}
    MaxFunds = 3
    MaxOutputs = 2
    MaxInputs = 2
    MaxGuards = 1
INVARIANTS
    FundsConserved
    TemplateFunded
    ChildPathsFresh
PROPERTIES
    LocksNeverWeaken
    PurseSpec
CHECK_DEADLOCK FALSE
