SPECIFICATION FairSpec
CONSTANTS
    Roots = {a}
    Elsewhere = elsewhere
    Scanners = {s1}
    Absent = absent
    Kinds = {"tags", "move", "copy"}
    RollBacks = {"move", "copy"}
    Mounts = {"on", "gone", "empty"}
    Folders = TRUE
    Stops = TRUE
    MaxPlaces = 2
    MaxFiles = 2
    MaxScans = 2
    MaxOps = 1
    MaxForeign = 1
    MaxFaults = 1
    Capacity = 1
CHECK_DEADLOCK FALSE
INVARIANTS
    UpToDateIsTrue
    UnchangedIsRight
PROPERTIES
    ForgetsOnlyTheDeleted
    ScansEnd
