\* Two calls, two retries each (backoffs of one and two ticks), a deadline of eight ticks, which a third backoff would fit in.
CONSTANTS
    Usages <- MCUsages
    Estimates = {1, 2}
    Outputs = {1, 2}
    MaxRetries = 2
    MaxCalls = 2
    Horizon = 9
    MaxToolCalls = 1
    MaxTotalTokens = 6
    MaxWallSeconds = 8
    MaxCost = 20
    InputPrice = 1
    CachedPrice = 1
    CacheWritePrice = 1
    OutputPrice = 4
    LongContext = 2
SPECIFICATION Spec
INVARIANTS TypeOK AcceptedCallVerifies ChargesMatchLog FailureIsRecorded
PROPERTIES NoDispatchAfterCap CallEnds ImplementsModelCall
CHECK_DEADLOCK FALSE
