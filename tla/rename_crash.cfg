SPECIFICATION Spec
CONSTANTS
    MaxOps = 3
    Paths = {a, b, c}
    Library = {f}
    Strangers = {s}
    Items = {i1, i2}
    Workers = {w1}
    Recovery = recovery
    NoPath = nopath
    MaxFaults = 2
    MaxCrashes = 2
    CrashKinds = {"power"}
    ReplayMayFail = FALSE
    RetryUnsettled = FALSE
SYMMETRY Interchangeable
INVARIANTS
    TypeOK
    OneFilePerName
    SettledAgreement
PROPERTIES
    PublishedIsDurable
    EvidenceBeforeReferences
    RecoverySettles
    PublicationsAreAtomic
