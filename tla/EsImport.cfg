SPECIFICATION FairSpec
CONSTANTS
    Shared <- SharedServices
    Own <- OwnServices
    ServiceCount = 6
    MaxBatch = 2
INVARIANTS
    TypeOK
    ReturnsAfterAllButOne
    OwnSetsAreKept
PROPERTIES
    ImportReturns
    ImplementsImport
\* The model stops after MaxBatch batches.
CHECK_DEADLOCK FALSE
