\* The instance of MCAuditLog.cfg: two completions share one output, and power is lost.
CONSTANTS
    Threads = {t1, t2}
    Nobody = nobody
    Contents = {out}
    Note = note
    Unpersisted = unpersisted
    MaxAppends = 3
    MaxCrashes = 1
SPECIFICATION Spec
INVARIANT PersistedBeforeCompletion
CHECK_DEADLOCK FALSE
