SPECIFICATION Spec
CONSTANTS
    None = None
    Torn = Torn
    Sessions = {s1, s2}
    Releasers = {r1, r2}
    Editors = {}
    Deleters = {d1}
    Listers = {l1}
    MaxCrashes = 1
\* One of these at a time; each is refuted.
PROPERTY NoTheft
\* INVARIANT LockedMeansHeld
\* INVARIANT LeaseIsLock
\* INVARIANT ListSurvives
\* Every call has been made and has returned.
CHECK_DEADLOCK FALSE
