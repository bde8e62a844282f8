SPECIFICATION Spec
CONSTANTS
    None = None
    Sessions = {s1, s2, s3}
    Pids = {p1, p2}
    MayReuse = TRUE
INVARIANTS
    NoOrphan
    StoppedIsDead
\* Every session has been started and stopped.
CHECK_DEADLOCK FALSE
