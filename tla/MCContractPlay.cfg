SPECIFICATION Spec
CONSTANTS
    Plays <- MCPlays
    MaxDepth = 6
    PoolUpdates <- MCPoolUpdates
    PaymentRequests <- MCRequests
    HotPayments <- MCHotPayments
    ChainUpdates <- MCChainUpdates
    Sales <- MCSales
    Nights = 3
    Day = 1
    ContestDelay = 2
    RecoveryDelay = 3
    EscrowDelay = 2
    OneUnit = 1
CHECK_DEADLOCK FALSE
INVARIANTS
    AlwaysFunded
    PaidWithinDeal
    ContestWindows
    VaultRate
    RequestsOnce
    SoldAtPrice
PROPERTIES
    Settles
