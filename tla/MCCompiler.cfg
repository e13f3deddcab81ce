SPECIFICATION Spec
CONSTANTS
    Contracts <- MCContracts
    Clauses <- MCClauses
    Keys <- MCKeys
    TemplateLists <- MCTemplateLists
    Amounts <- MCAmounts
    EffectKeys <- MCEffectKeys
    Size = 1
CHECK_DEADLOCK FALSE
INVARIANTS
    OnlyLicensedWays
    CommittedAreEnforced
    CompileIfRespected
    NeverPanics
    EffectsReachTheirPoint
    EffectsKeepTheContract
