SPECIFICATION Spec
CONSTANTS
    MaxBlock = 3
    RingSize = 1
    FaultyBlocks = {}
    TxBlocks = {1}
    Faults = {}
    MaxFault = 0
    MaxCrash = 1
    CatchUpSize = 1
    BehindSize = 2
    Gap = 2
    MaxRefusal = 0
PROPERTY SelfCheckCoversRedis
