SPECIFICATION Spec
CONSTANTS
    s1 = s1
    s2 = s2
    s3 = s3
    p1 = p1
    p2 = p2
    Free = Free
    Blank = Blank
    Sessions = {s1, s2}
    Stoppers = {t1}
    Profiles = {p1}
    ProfileOf <- SameProfile
    HostProfiles = {p1}
    Ephemeral = {p1}
    EagerStop = FALSE
    MaxBotched = 0
\* One of these at a time; each is refuted.
PROPERTY DirStaysUnderBrowser
\* INVARIANT BrowsingIsActive
\* A request that was refused leaves nothing to do.
CHECK_DEADLOCK FALSE
