SPECIFICATION EpochFairSpec
CONSTANTS
    MaxBlock = 4
    RingSize = 2
    FaultyBlocks = {2}
    Faults = {"rollback", "commit", "main", "lists"}
    MaxFault = 1
    MaxCrash = 1
    ConsensusSize = 2
    SettleSize = 3
    MaxFailedChange = 1
INVARIANTS
    TypeOK
    RingInvariant
    AppliedExactlyOnce
    ListsTypeOK
    MessagesFit
    RoundsRecorded
PROPERTIES
    ImplementsLedger
    EveryBlockApplied
\* The bounded chain ends, and a broken loop or a wedged handler stops the agent.
CHECK_DEADLOCK FALSE
