SPECIFICATION Spec
CONSTANTS
    MaxBlock = 3
    RingSize = 1
    FaultyBlocks = {2}
    TxBlocks = {2, 3}
    Faults = {"rollback", "commit"}
    MaxFault = 1
    MaxCrash = 1
    CatchUpSize = 1
    BehindSize = 2
    Gap = 2
    MaxRefusal = 1
INVARIANTS
    TypeOK
    HolesAboveNewest
    CommittedIsIndexedOrStaged
    EsAheadByOneBlock
PROPERTIES
    StoresOnlyGrow
