SPECIFICATION FairSpec
CONSTANTS
    Caches = {Block, Transaction}
    MaxItem = 3
    BatchLen = 2
    MaxScore = 9
    MaxFail = 3
INVARIANTS
    TypeOK
    CacheIsRecentWindow
    CacheBounded
PROPERTY ImportReturns
\* The model stops at MaxScore.
CHECK_DEADLOCK FALSE
