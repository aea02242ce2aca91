SPECIFICATION FairSpec
CONSTANTS
    MaxOps = 2
    Foreign = {f}
    Nothing = nothing
    Workers = {w1, w2}
    Recovery = recovery
    Kinds = {"text", "cover"}
    Undoes = FALSE
    AtomicExchange = FALSE
    KeepBackups = {FALSE}
    Moves = TRUE
    MaxFaults = 1
    MaxCrashes = 0
    CrashKinds = {}
CHECK_DEADLOCK FALSE
PROPERTIES
    EditsSurvive
    JobsEnd
