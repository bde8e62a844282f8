SPECIFICATION FairSpec
CONSTANTS
    c1 = c1
    s1 = s1
    Clients <- OneClient
    Strays <- OneStray
    Transports <- BothListeners
    MaxFrame = 1
    MaxCalls = 2
\* One of these at a time; each is refuted.
INVARIANT ClosedIsClean
\* PROPERTY EverybodyServed
CHECK_DEADLOCK FALSE
