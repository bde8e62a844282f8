SPECIFICATION FairSpec
CONSTANTS
    c1 = c1
    s1 = s1
    Clients <- OneClient
    Strays <- OneStray
    Transports <- BothListeners
    MaxFrame = 1
    MaxCalls = 2
INVARIANTS
    AtMostOnce
    ReplyIsToThisCall
PROPERTIES
    CallsReturn
    UnixServesEverybody
CHECK_DEADLOCK FALSE
