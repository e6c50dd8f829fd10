\* Two tool calls, an opening of at most two; the token cap may stop the run at any call.
CONSTANTS
    Estimates = {1}
    Outputs = {1}
    Usages <- MCUsages
    CallIds = {c1, c2, c3}
    FindingIds = {f1}
    MaxOpeningTools = 2
    Horizon = 2
    MaxToolCalls = 2
    MaxTotalTokens = 15
    MaxWallSeconds = 2
    MaxCost = 100
    InputPrice = 1
    CachedPrice = 1
    CacheWritePrice = 1
    OutputPrice = 2
    LongContext = 2
SPECIFICATION Spec
INVARIANTS TypeOK CompleteVerifies VerdictsHold CapOnRecordOnce RequestsBounded
PROPERTY RunEnds
CHECK_DEADLOCK FALSE
