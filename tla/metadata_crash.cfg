SPECIFICATION Spec
CONSTANTS
    MaxOps = 2
    Foreign = {f}
    Nothing = nothing
    Workers = {w1}
    Recovery = recovery
    Kinds = {"text"}
    Undoes = TRUE
    AtomicExchange = TRUE
    KeepBackups = {TRUE, FALSE}
    Moves = FALSE
    MaxFaults = 1
    MaxCrashes = 1
    CrashKinds = {"power"}
CHECK_DEADLOCK FALSE
INVARIANTS
    NeverWithoutTheFile
    ListsMatchFile
    NothingLeftBehind
PROPERTIES
    SavesAreAtomic
