SPECIFICATION Spec
CONSTANTS
    Readers = {r1}
    MaxMoves = 2
INVARIANTS
    ActiveIsMeasured
    RunsBehindGate
    AnswerAgrees
    GreenIsEarned
    SafeIsEarned
CHECK_DEADLOCK FALSE
