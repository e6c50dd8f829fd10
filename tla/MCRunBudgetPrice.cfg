\* The instance of MCRunBudget.cfg; a cache write costs more than uncached input.
CONSTANTS
    client = client
    worker = worker
    Threads <- MCThreads
    Client <- client
    Usages <- MCUsages
    Counts = {1, 2}
    Estimates = {1, 2}
    Outputs = {1, 2}
    Horizon = 2
    MaxToolCalls = 3
    MaxTotalTokens = 6
    MaxWallSeconds = 2
    MaxCost = 425
    InputPrice = 20
    CachedPrice = 2
    CacheWritePrice = 25
    OutputPrice = 120
    LongContext = 2
SPECIFICATION Spec
INVARIANT UncachedPriceIsSafe
