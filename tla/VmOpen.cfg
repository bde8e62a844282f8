SPECIFICATION Spec
CONSTANTS
    NoEntry = NoEntry
    NoRequest = NoRequest
    Callers = {c1, c2}
    Serial = TRUE
    MayFail = {"create", "write", "define", "start", "shutdown", "poweroff", "undefine", "shred"}
\* One of these at a time; each is refuted. DestroyedIsOff is refuted without any
\* failure too, when calls overlap: Serial = FALSE and MayFail = {}.
INVARIANT DestroyedIsOff
\* INVARIANT NoOrphanOverlay
\* With "stat" among MayFail, a report claims an overlay that is still there:
\* INVARIANT ReportIsTrue
\* The system stops when provision refuses or fails.
CHECK_DEADLOCK FALSE
