\* The instance of MCAuditLog.cfg: an append after one that failed.
CONSTANTS
    Threads = {t1, t2}
    Nobody = nobody
    Contents = {out}
    Note = note
    Unpersisted = unpersisted
    MaxAppends = 3
    MaxCrashes = 1
SPECIFICATION Spec
PROPERTY AckedChainVerifies
CHECK_DEADLOCK FALSE
