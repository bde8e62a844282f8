SPECIFICATION Spec
CONSTANTS
    None = None
    Torn = Torn
    Sessions = {s1, s2, s3}
    Releasers = {r1}
    Editors = {e1}
    Deleters = {d1}
    Listers = {l1}
    MaxCrashes = 1
INVARIANT HeldMeansLocked
INVARIANT NoLostEdit
INVARIANT MetaIsWhole
PROPERTY DeletedStaysGone
\* Every call has been made and has returned.
CHECK_DEADLOCK FALSE
