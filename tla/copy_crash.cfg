SPECIFICATION Spec
CONSTANTS
    MaxOps = 2
    Paths = {a, b, c}
    Library = {f}
    Strangers = {s}
    Items = {i1, i2}
    Workers = {w1}
    Recovery = recovery
    NoPath = nopath
    Kinds = {"copy", "artifact"}
    MaxFaults = 1
    MaxCrashes = 2
    CrashKinds = {"process"}
    ReplayMayFail = FALSE
SYMMETRY Interchangeable
INVARIANTS
    ReferencesNeverDangle
    ExactlyOneRemains
