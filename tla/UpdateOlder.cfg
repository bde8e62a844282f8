SPECIFICATION Spec
CONSTANTS
    r1 = r1
    r2 = r2
    m1 = m1
    m2 = m2
    m3 = m3
    mx = mx
    gw = gw
    br = br
    app = app
    tGw = tGw
    tBr = tBr
    tApp = tApp
    None = None
    Torn = Torn
    Manifests <- MCManifests
    Signed = {m1, m2, m3}
    Version <- MCVersion
    Base = m2
    ListOf <- MCListOf
    Targets <- MCTargets
    TargetOf <- MCTargetOf
    Requests = {r1, r2}
    MayAsk = {m2, m3}
    Cli = {r1, r2}
    Own = 1
    Serial = TRUE
    Faults = {}
    MaxCrashes = 0
INVARIANT NeverOlder
\* Every request has been made and has returned.
CHECK_DEADLOCK FALSE
