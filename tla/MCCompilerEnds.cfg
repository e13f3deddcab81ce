SPECIFICATION FairSpec
CONSTANTS
    Contracts <- MCTwoGuards
    Clauses <- MCClauses
    Keys <- MCKeys
    TemplateLists <- MCTemplateLists
    Amounts <- MCAmounts
    EffectKeys <- MCEffectKeys
    Size = 1
CHECK_DEADLOCK FALSE
PROPERTIES
    CompilationEnds
