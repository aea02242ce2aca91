SPECIFICATION FairSpec
CONSTANTS
    MaxOps = 2
    Paths = {a, b, c}
    Library = {f, g}
    Strangers = {s}
    Items = {i1}
    Workers = {w1, w2}
    Recovery = recovery
    NoPath = nopath
    MaxFaults = 2
    MaxCrashes = 1
    CrashKinds = {"process"}
    ReplayMayFail = FALSE
    RetryUnsettled = FALSE
INVARIANTS
    JobTracksFile
PROPERTIES
    JobsEnd
