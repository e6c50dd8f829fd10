\* Pool of two for three calls, so that one is queued; a cap of four calls, and of time.
CONSTANTS
    Ids = {"a", "b", "c", "d", "e", "bad"}
    Invalid = {"bad"}
    Batches <- MCBatches
    MaxOpening = 3
    PoolSize = 2
    Horizon = 1
    MaxToolCalls = 4
    MaxTotalTokens = 1
    MaxWallSeconds = 1
    MaxCost = 1
    InputPrice = 0
    CachedPrice = 0
    CacheWritePrice = 0
    OutputPrice = 0
    LongContext = 1
SPECIFICATION Spec
INVARIANTS TypeOK OneReceipt AllOrNone ReceiptsAccountForBudget NothingOutlivesBatch ResultsInOrder LateStartsBounded
PROPERTY BatchEnds
CHECK_DEADLOCK FALSE
