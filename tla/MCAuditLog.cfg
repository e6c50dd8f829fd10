\* Three appends by two threads, one crash: the third append follows a failed or lost one.
CONSTANTS
    Threads = {t1, t2}
    Nobody = nobody
    Contents = {out}
    Note = note
    Unpersisted = unpersisted
    MaxAppends = 3
    MaxCrashes = 1
SPECIFICATION Spec
INVARIANTS TypeOK ChainIntact VerifiedHoldsAcked CompletedHasArtifact
PROPERTIES AppendsEnd
CHECK_DEADLOCK FALSE
