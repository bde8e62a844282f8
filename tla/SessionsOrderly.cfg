SPECIFICATION Spec
CONSTANTS
    s1 = s1
    s2 = s2
    s3 = s3
    p1 = p1
    p2 = p2
    Free = Free
    Blank = Blank
    Sessions = {s1, s2, s3}
    Stoppers = {t1}
    Profiles = {p1, p2}
    ProfileOf <- TwoProfiles
    HostProfiles = {p2}
    Ephemeral = {p2}
    EagerStop = FALSE
    MaxBotched = 1
SYMMETRY TwoProfilesSymmetry
INVARIANT BrowsingIsIntact
INVARIANT LockHasOwner
INVARIANT EndedIsClean
INVARIANT OneBrowserPerProfile
PROPERTY KeepsPromise
\* A request that was refused leaves nothing to do.
CHECK_DEADLOCK FALSE
