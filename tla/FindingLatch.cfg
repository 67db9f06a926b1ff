SPECIFICATION Spec
CONSTANTS
    Shared <- SharedServices
    Own <- OwnServices
    ServiceCount = 6
    MaxBatch = 2
INVARIANTS
    NoLossWhileRunning
\* The model stops after MaxBatch batches.
CHECK_DEADLOCK FALSE
