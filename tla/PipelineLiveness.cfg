SPECIFICATION FairSpec
CONSTANTS
    MaxBlock = 2
    RingSize = 1
    FaultyBlocks = {}
    TxBlocks = {1}
    Faults = {"rollback", "commit", "main"}
    MaxFault = 1
    MaxCrash = 1
    CatchUpSize = 1
    BehindSize = 2
    Gap = 2
    MaxRefusal = 0
PROPERTIES
    FullBatchIsIndexed
