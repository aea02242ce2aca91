SPECIFICATION Spec
CONSTANTS
    MaxOps = 2
    Paths = {a, b, c}
    Library = {f}
    Strangers = {}
    Items = {i1, i2}
    Workers = {w1}
    Recovery = recovery
    NoPath = nopath
    Kinds = {"copy", "artifact"}
    MaxFaults = 0
    MaxCrashes = 2
    CrashKinds = {"process", "power"}
    ReplayMayFail = FALSE
SYMMETRY Interchangeable
INVARIANTS
    OnlyCopySurvives
