SPECIFICATION Spec
CONSTANTS
    NoEntry = NoEntry
    NoRequest = NoRequest
    Callers = {c1, c2}
    Serial = FALSE
    MayFail = {"create", "write", "define", "start", "shutdown", "poweroff", "undefine", "shred"}
INVARIANT ReportIsTrue
INVARIANT DomainIsConfined
PROPERTY ProvisionAnswersTrue
\* The system stops when provision refuses or fails.
CHECK_DEADLOCK FALSE
