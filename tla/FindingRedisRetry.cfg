SPECIFICATION Spec
CONSTANTS
    Caches = {Block, Transaction}
    MaxItem = 3
    BatchLen = 2
    MaxScore = 4
    MaxFail = 1
INVARIANT RetriedUntilSaved
\* The model stops at MaxScore.
CHECK_DEADLOCK FALSE
