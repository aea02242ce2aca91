SPECIFICATION Spec
CONSTANTS
    Files = {f, g}
    Paths = {a, b, c}
    Rows = {r1, r2}
    Workers = {w}
    Recovery = recovery
    Kinds = {"tags", "move", "copy", "publish"}
    Absent = absent
    MaxOps = 2
    MaxEdits = 2
    MaxForeign = 1
    MaxFaults = 1
    MaxCrashes = 1
    MaxEvents = 2
    Failing = {"commit"}
    MaxQueue = 2
    Overlap = FALSE
INVARIANTS
    CommittedViewSurvives
    RowsFollowFiles
    NoFalseRefusal
PROPERTIES
    ListsAreStored
CHECK_DEADLOCK FALSE
