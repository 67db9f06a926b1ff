CONSTANTS
    Delegators = {d1, d2}
    MaxGen = 2
    Freeze = 1
    ZeroProduceFreeze = 1
    StakeThreshold = 2
    DelegateThreshold = 2
    DefaultLocked = 3
    LowRateSlash = 1
    SlashDivisor = 2
    VoteExtra = 1
    MaxEpoch = 3
    MaxStake = 3
    MaxClaim = 4
    MaxReports = 2
SPECIFICATION Spec
PROPERTIES
    PenaltyIsTakenOffRedemption
CHECK_DEADLOCK FALSE
SYMMETRY Symmetry
