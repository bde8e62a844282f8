SPECIFICATION Spec
CONSTANTS
    r1 = r1
    r2 = r2
    m1 = m1
    m2 = m2
    m3 = m3
    mx = mx
    gw = gw
    br = br
    app = app
    tGw = tGw
    tBr = tBr
    tApp = tApp
    None = None
    Torn = Torn
    Manifests <- MCManifests
    Signed = {m1, m2, m3}
    Version <- MCVersion
    Base = m2
    ListOf <- MCListOf
    Targets <- MCTargets
    TargetOf <- MCTargetOf
    Requests = {r1, r2}
    MayAsk = {m1, m3, mx}
    Cli = {r2}
    Own = 2
    Serial = TRUE
    Faults = {"mkdir", "move", "write", "install", "cleanup", "remove", "restore"}
    MaxCrashes = 1
INVARIANT PreviousRetained
INVARIANT OnlySignedInstalled
PROPERTY RolledBackIsPrevious
PROPERTY AppliedIsWhole
\* Every request has been made and has returned.
CHECK_DEADLOCK FALSE
